---------------------------- MODULE Spec2Model ----------------------------
(***************************************************************************)
(* Chord inference post-processing of basic-pitch-server                   *)
(* (src/basic-pitch-server/chord_inference.py).                            *)
(*                                                                         *)
(* Units.  Times are integers in centiseconds (0.06 s = 6, 2.0 s = 200).   *)
(* A note confidence is an integer in hundredths (0.85 = 85).  A chord     *)
(* confidence is an exact fraction [n, d] in lowest terms.  A key          *)
(* confidence is a Pearson correlation kept exactly as num / sqrt(vx * vy).*)
(* Floating-point rounding is not modelled: every float expression of the  *)
(* source is evaluated in exact arithmetic.                                *)
(***************************************************************************)
EXTENDS Integers, Sequences, FiniteSets, TLC

----------------------------------------------------------------------------
(* Arithmetic helpers *)

Max(a, b) == IF a >= b THEN a ELSE b

Min(a, b) == IF a <= b THEN a ELSE b

RECURSIVE Gcd(_, _)
Gcd(a, b) == IF b = 0 THEN a ELSE Gcd(b, a % b)

Lcm(a, b) == (a \div Gcd(a, b)) * b

RECURSIVE SumSeq(_)
SumSeq(s) == IF s = <<>> THEN 0 ELSE Head(s) + SumSeq(Tail(s))

SetMin(S) == CHOOSE x \in S : \A y \in S : x <= y

SetMax(S) == CHOOSE x \in S : \A y \in S : x >= y

RECURSIVE SeqToSet(_)
SeqToSet(s) == IF s = <<>> THEN {} ELSE {Head(s)} \cup SeqToSet(Tail(s))

\* TLC passes operator arguments unevaluated; a loop written as a recursion
\* evaluates its accumulator before the next iteration with this guard
Evaluated(x) == x = x

\* Exact fractions n/d, d > 0, in lowest terms (chord confidences)
Frac(n, d) == LET g == Gcd(IF n < 0 THEN -n ELSE n, d)
              IN [n |-> n \div g, d |-> d \div g]

FracGeq(f, p, q) == f.n * q >= p * f.d      \* f >= p/q

FracLt(f, p, q) == f.n * q < p * f.d        \* f <  p/q

FracAvg(f, g) ==                            \* (f + g) / 2
    LET l == Lcm(f.d, g.d)
    IN Frac(f.n * (l \div f.d) + g.n * (l \div g.d), 2 * l)

FracOne == [n |-> 1, d |-> 1]

\* Natural numbers of any size: little-endian digits in base BigBase
BigBase == 10 ^ 4

RECURSIVE BigOfNat(_)
BigOfNat(n) == IF n = 0 THEN <<>> ELSE <<n % BigBase>> \o BigOfNat(n \div BigBase)

RECURSIVE BigCarry(_, _, _, _, _)
BigCarry(a, b, k, last, carry) ==
    IF k > last
    THEN BigOfNat(carry)
    ELSE LET lo == Max(1, k + 1 - Len(b))
             hi == Min(k, Len(a))
             terms == [i \in 1..(hi - lo + 1) |-> a[lo + i - 1] * b[k + 1 - (lo + i - 1)]]
             t == SumSeq(terms) + carry
         IN <<t % BigBase>> \o BigCarry(a, b, k + 1, last, t \div BigBase)

BigMul(a, b) ==
    IF a = <<>> \/ b = <<>> THEN <<>>
    ELSE BigCarry(a, b, 1, Len(a) + Len(b) - 1, 0)

RECURSIVE BigGreaterFrom(_, _, _)
BigGreaterFrom(a, b, i) ==
    IF i = 0 THEN FALSE
    ELSE IF a[i] # b[i] THEN a[i] > b[i]
    ELSE BigGreaterFrom(a, b, i - 1)

BigGreater(a, b) ==
    IF Len(a) # Len(b) THEN Len(a) > Len(b) ELSE BigGreaterFrom(a, b, Len(a))

Abs(n) == IF n < 0 THEN -n ELSE n

BigSq(n) == BigMul(BigOfNat(Abs(n)), BigOfNat(Abs(n)))

----------------------------------------------------------------------------
(* Sorting: the indices of keys in ascending key order, equal keys keeping *)
(* their original order (Python's list.sort and sorted are stable)         *)

RECURSIVE SortedIndices(_, _)
SortedIndices(keys, rem) ==
    IF rem = {} THEN <<>>
    ELSE LET i == CHOOSE i \in rem : \A j \in rem :
                      keys[i] < keys[j] \/ (keys[i] = keys[j] /\ i <= j)
         IN <<i>> \o SortedIndices(keys, rem \ {i})

StableSort(s, keys) ==
    LET idx == SortedIndices(keys, 1..Len(s)) IN [i \in 1..Len(s) |-> s[idx[i]]]

RECURSIVE Distinct(_)
\* the distinct elements of s in order of first occurrence (dict key order)
Distinct(s) ==
    IF s = <<>> THEN <<>>
    ELSE LET init == Distinct(SubSeq(s, 1, Len(s) - 1))
             x == s[Len(s)]
         IN IF x \in SeqToSet(init) THEN init ELSE Append(init, x)

RECURSIVE Concat(_)
Concat(ss) == IF ss = <<>> THEN <<>> ELSE Head(ss) \o Concat(Tail(ss))

----------------------------------------------------------------------------
(* ChordInferenceConfig *)

MEDIAN_FILTER_SIZE == 3

MIN_NOTE_DURATION == 6

WINDOW_SIZE == 200

WINDOW_OVERLAP == 20

MIN_NOTES_PER_CHORD == 2

KEY_FILTER_CONFIDENCE_THRESHOLD == 15

MIN_CHORD_DURATION == 30

MERGE_THRESHOLD == 40

FUNCTIONAL_CHORDS ==
    {"major", "minor", "sus2", "sus4", "7", "m7", "maj7", "m11", "dim", "aug", "add9", "6"}

note_names == <<"C", "C#", "D", "D#", "E", "F", "F#", "G", "G#", "A", "A#", "B">>

NoteName(p) == note_names[p + 1]

----------------------------------------------------------------------------
(* Data structures *)

NoteEvent(onset, offset, pitch, confidence) ==
    [onset |-> onset, offset |-> offset, pitch |-> pitch, confidence |-> confidence]

duration(e) == e.offset - e.onset

pitch_class(note) == note.pitch % 12

\* chord_symbol is the pair <<root name, suffix>> of the string the source
\* concatenates; the timeline label "N" is the pair <<"N", "">>
ChordEvent(onset, offset, chord_symbol, confidence, pitch_classes, root_pc, chord_type) ==
    [onset |-> onset, offset |-> offset, chord_symbol |-> chord_symbol,
     confidence |-> confidence, pitch_classes |-> pitch_classes,
     root_pc |-> root_pc, chord_type |-> chord_type]

NoChordLabel == <<"N", "">>

SymbolString(sym) == sym[1] \o sym[2]

\* key confidence: the correlation num / sqrt(vx * vy), already clamped to [0, 1]
KeyEstimate(key_pc, mode, confidence) ==
    [key_pc |-> key_pc, mode |-> mode, confidence |-> confidence]

CorrZero == [num |-> 0, vx |-> 1, vy |-> 1]

CorrOne == [num |-> 1, vx |-> 1, vy |-> 1]

\* conf >= p/q and conf < p/q for a key confidence (p, q > 0)
CorrGeq(c, p, q) ==
    ~ BigGreater(BigMul(BigSq(p), BigMul(BigOfNat(c.vx), BigOfNat(c.vy))),
                 BigMul(BigSq(q), BigSq(c.num)))

CorrLt(c, p, q) == ~ CorrGeq(c, p, q)

----------------------------------------------------------------------------
(* PitchSmoother *)

\* scipy.signal.medfilt: the signal is padded with zeros on both sides and
\* each output is the median of the kernel_size values centred on it
Padded(v, i) == IF i >= 1 /\ i <= Len(v) THEN v[i] ELSE 0

medfilt(v, kernel_size) ==
    LET h == kernel_size \div 2
        win(i) == [j \in 1..kernel_size |-> Padded(v, i - h + j - 1)]
    IN [i \in 1..Len(v) |-> StableSort(win(i), win(i))[h + 1]]

\* the filter applied to every group of 2 or more notes
SmoothGroupFilteringPairs(events, filter_size) ==
    IF Len(events) <= 1 THEN events
    ELSE LET sorted == StableSort(events, [i \in 1..Len(events) |-> events[i].onset])
             smoothed_confidences ==
                 medfilt([i \in 1..Len(sorted) |-> sorted[i].confidence], filter_size)
         IN [i \in 1..Len(sorted) |->
                NoteEvent(sorted[i].onset, sorted[i].offset, sorted[i].pitch,
                          smoothed_confidences[i])]

SmoothGroup(events, filter_size) ==
    IF Len(events) <= 1 THEN events
    ELSE LET sorted == StableSort(events, [i \in 1..Len(events) |-> events[i].onset])
             confidences == [i \in 1..Len(sorted) |-> sorted[i].confidence]
         IN IF Len(confidences) >= filter_size
            THEN LET smoothed_confidences == medfilt(confidences, filter_size)
                 IN [i \in 1..Len(sorted) |->
                        NoteEvent(sorted[i].onset, sorted[i].offset, sorted[i].pitch,
                                  smoothed_confidences[i])]
            ELSE sorted

PitchClassOrder(note_events) ==
    Distinct([i \in 1..Len(note_events) |-> pitch_class(note_events[i])])

smooth_pitch_activity(note_events) ==
    LET pcs == PitchClassOrder(note_events)
        group(p) == LET InGroup(n) == pitch_class(n) = p IN SelectSeq(note_events, InGroup)
    IN Concat([k \in 1..Len(pcs) |-> SmoothGroup(group(pcs[k]), MEDIAN_FILTER_SIZE)])

----------------------------------------------------------------------------
(* ChordInferenceEngine: note filters *)

\* the filter comparing the offset, not the duration, with the minimum
_filter_short_notes_by_offset(events) ==
    LET Late(event) == event.offset >= MIN_NOTE_DURATION IN SelectSeq(events, Late)

_filter_short_notes(events) ==
    LET Long(e) == duration(e) >= MIN_NOTE_DURATION IN SelectSeq(events, Long)

MajorScale == {0, 2, 4, 5, 7, 9, 11}

MinorScale == {0, 2, 3, 5, 7, 8, 10}

ScalePcs(key_estimate) ==
    {(key_estimate.key_pc + interval) % 12 :
        interval \in (IF key_estimate.mode = "major" THEN MajorScale ELSE MinorScale)}

\* the filter dropping every note outside the scale, whatever its confidence
_apply_key_filtering_strict(events, key_estimate) ==
    IF CorrLt(key_estimate.confidence, 1, 2) THEN events
    ELSE LET Keep(event) == pitch_class(event) \in ScalePcs(key_estimate)
         IN SelectSeq(events, Keep)

_apply_key_filtering(events, key_estimate) ==
    IF CorrLt(key_estimate.confidence, 1, 2) THEN events
    ELSE LET Keep(event) ==
                 \/ pitch_class(event) \in ScalePcs(key_estimate)
                 \/ event.confidence >= KEY_FILTER_CONFIDENCE_THRESHOLD
         IN SelectSeq(events, Keep)

_is_in_key(p, key_estimate) ==
    IF CorrLt(key_estimate.confidence, 1, 2) THEN TRUE
    ELSE p \in ScalePcs(key_estimate)

----------------------------------------------------------------------------
(* KeyDetector *)

\* Krumhansl-Schmuckler profiles in hundredths.  __init__ divides each by its
\* sum; a Pearson correlation is unchanged by a positive scaling of either
\* argument, so the unscaled integers give the same correlations.
MAJOR_PROFILE == <<635, 223, 348, 233, 438, 409, 252, 519, 239, 366, 229, 288>>

MINOR_PROFILE == <<633, 268, 352, 538, 260, 353, 254, 475, 398, 269, 334, 317>>

\* np.roll(profile, root_pc): entry i of the result is entry i - root_pc
Roll(profile, root_pc) == [i \in 1..12 |-> profile[((i - 1 - root_pc) % 12) + 1]]

\* 12 * sum(v^2) - sum(v)^2: 144 times the variance of the 12 values
Variance12(v) == 12 * SumSeq([i \in 1..12 |-> v[i] * v[i]]) - SumSeq(v) * SumSeq(v)

\* A correlation is the record [num, vx, vy] standing for num / sqrt(vx * vy)
CorrSign(c) == IF c.num > 0 THEN 1 ELSE IF c.num < 0 THEN -1 ELSE 0

CorrMagnitudeGreater(a, b) ==      \* |a| > |b|
    BigGreater(BigMul(BigSq(a.num), BigMul(BigOfNat(b.vx), BigOfNat(b.vy))),
               BigMul(BigSq(b.num), BigMul(BigOfNat(a.vx), BigOfNat(a.vy))))

CorrGreater(a, b) ==               \* a > b
    IF CorrSign(a) # CorrSign(b) THEN CorrSign(a) > CorrSign(b)
    ELSE IF CorrSign(a) = 1 THEN CorrMagnitudeGreater(a, b)
    ELSE IF CorrSign(a) = -1 THEN CorrMagnitudeGreater(b, a)
    ELSE FALSE

\* a degenerate comparison (no variance on one side) counted as a perfect
\* match instead of 0.0
_correlate_with_profile_degenerate_one(pc_weights, root_pc, profile) ==
    LET rotated_profile == Roll(profile, root_pc)
        vx == Variance12(pc_weights)
        vy == Variance12(rotated_profile)
        num == 12 * SumSeq([i \in 1..12 |-> pc_weights[i] * rotated_profile[i]])
               - SumSeq(pc_weights) * SumSeq(rotated_profile)
    IN IF vx = 0 \/ vy = 0 THEN CorrOne ELSE [num |-> num, vx |-> vx, vy |-> vy]

\* np.corrcoef(pc_weights, rotated_profile)[0, 1], with nan (a constant
\* pc_weights) replaced by 0.0
_correlate_with_profile(pc_weights, root_pc, profile) ==
    LET rotated_profile == Roll(profile, root_pc)
        vx == Variance12(pc_weights)
        vy == Variance12(rotated_profile)
        num == 12 * SumSeq([i \in 1..12 |-> pc_weights[i] * rotated_profile[i]])
               - SumSeq(pc_weights) * SumSeq(rotated_profile)
    IN IF vx = 0 \/ vy = 0 THEN CorrZero ELSE [num |-> num, vx |-> vx, vy |-> vy]

\* the weighted pitch-class histogram: weight = duration * confidence
Histogram(events) ==
    [i \in 1..12 |->
        SumSeq([k \in 1..Len(events) |->
                  IF pitch_class(events[k]) = i - 1
                  THEN duration(events[k]) * events[k].confidence ELSE 0])]

RECURSIVE GcdSeq(_)
GcdSeq(v) == IF v = <<>> THEN 0 ELSE Gcd(Abs(Head(v)), GcdSeq(Tail(v)))

\* pc_weights / np.sum(pc_weights): a positive scaling of the histogram.  The
\* model scales by the greatest common divisor instead of the sum, which keeps
\* the entries integers and every correlation the same.
Normalize(pc_weights) == [i \in 1..12 |-> pc_weights[i] \div GcdSeq(pc_weights)]

\* the 24 candidates tested from root 11 down to root 0
KeyCandidateDescending(k) ==
    [root_pc |-> 11 - ((k - 1) \div 2), mode |-> IF k % 2 = 1 THEN "major" ELSE "minor"]

\* the 24 candidates in the order the loop tests them: root 0 major, root 0
\* minor, root 1 major, ...
KeyCandidate(k) ==
    [root_pc |-> (k - 1) \div 2, mode |-> IF k % 2 = 1 THEN "major" ELSE "minor"]

\* the profiles handed to the two correlations of an iteration, swapped
KeyProfileSwapped(mode) == IF mode = "major" THEN MINOR_PROFILE ELSE MAJOR_PROFILE

\* self.major_profile for the major test, self.minor_profile for the minor one
KeyProfile(mode) == IF mode = "major" THEN MAJOR_PROFILE ELSE MINOR_PROFILE

RECURSIVE BestKey(_, _, _)
\* best is [correlation, key_pc, mode]; a candidate replaces it only when its
\* correlation is strictly greater
BestKey(pc_weights, k, best) ==
    IF k > 24 THEN best
    ELSE LET c == KeyCandidate(k)
             corr == _correlate_with_profile(pc_weights, c.root_pc, KeyProfile(c.mode))
             next_best == IF CorrGreater(corr, best.correlation)
                          THEN [correlation |-> corr, key_pc |-> c.root_pc, mode |-> c.mode]
                          ELSE best
         IN CASE Evaluated(next_best) -> BestKey(pc_weights, k + 1, next_best)

\* max(0.0, min(1.0, best_correlation))
ClampCorrelation(c) ==
    IF c.num <= 0 THEN CorrZero
    ELSE IF BigGreater(BigSq(c.num), BigMul(BigOfNat(c.vx), BigOfNat(c.vy))) THEN CorrOne
    ELSE c

\* the normalised histogram and the best candidate are each bound once, as
\* the members of a one-element set
estimate_key(note_events) ==
    IF note_events = <<>> THEN KeyEstimate(0, "major", CorrZero)
    ELSE LET long == _filter_short_notes(note_events)
             filtered_events == IF long = <<>> THEN note_events ELSE long
             pc_weights == Histogram(filtered_events)
         IN IF SumSeq(pc_weights) = 0 THEN KeyEstimate(0, "major", CorrZero)
            ELSE CHOOSE estimate \in
                     { KeyEstimate(best.key_pc, best.mode, ClampCorrelation(best.correlation)) :
                         best \in { BestKey(w, 1, [correlation |-> [num |-> -1, vx |-> 1, vy |-> 1],
                                                   key_pc |-> 0, mode |-> "major"]) :
                                      w \in {Normalize(pc_weights)} } } : TRUE

----------------------------------------------------------------------------
(* ChordInferenceEngine: chord identification *)

chord_tests == <<
    [req |-> {0, 4, 7},           type |-> "major", suffix |-> "",     base |-> 10],
    [req |-> {0, 3, 7},           type |-> "minor", suffix |-> "m",    base |-> 10],
    [req |-> {0, 4, 7, 10},       type |-> "7",     suffix |-> "7",    base |-> 12],
    [req |-> {0, 3, 7, 10},       type |-> "m7",    suffix |-> "m7",   base |-> 12],
    [req |-> {0, 4, 7, 11},       type |-> "maj7",  suffix |-> "maj7", base |-> 12],
    [req |-> {0, 3, 7, 10, 2, 5}, type |-> "m11",   suffix |-> "m11",  base |-> 14],
    [req |-> {0, 4, 7, 2},        type |-> "add9",  suffix |-> "add9", base |-> 11],
    [req |-> {0, 4, 7, 9},        type |-> "6",     suffix |-> "6",    base |-> 11],
    [req |-> {0, 3, 6},           type |-> "dim",   suffix |-> "dim",  base |-> 9],
    [req |-> {0, 4, 8},           type |-> "aug",   suffix |-> "aug",  base |-> 9],
    [req |-> {0, 2, 7},           type |-> "sus2",  suffix |-> "sus2", base |-> 8],
    [req |-> {0, 5, 7},           type |-> "sus4",  suffix |-> "sus4", base |-> 8],
    [req |-> {0, 4},              type |-> "major", suffix |-> "",     base |-> 6],
    [req |-> {0, 3},              type |-> "minor", suffix |-> "m",    base |-> 6],
    [req |-> {0, 7},              type |-> "major", suffix |-> "",     base |-> 4] >>

\* A score is kept as the pair [a, b] of integer factors of the source's float
\* product:  score = (a * b) / (|intervals_set| * 2500 * max_weight'), where
\*   a = base * |required| * (3 or 2) * (13 or 10) * (6 or 5) * (7 or 5)
\*       (the 1.5, 1.3, 1.2 and 1.4 bonuses taken or not), and
\*   b = 5 * max_weight + 4 * root_weight   (1 + 0.8 * root_weight / max_weight),
\*       or 1 when every weight is 0 (max_weight' is then 1).
\* The divisor is the same for every root and shape of one call, so comparing
\* a * b compares the scores.
ScoreGreater(s, t) ==
    BigGreater(BigMul(BigOfNat(s.a), BigOfNat(s.b)), BigMul(BigOfNat(t.a), BigOfNat(t.b)))

\* pc_weights is a function from the window's pitch classes to their weights
RootWeightFactor(root, pc_weights) ==
    LET max_weight == SetMax({pc_weights[p] : p \in DOMAIN pc_weights})
        root_weight == IF root \in DOMAIN pc_weights THEN pc_weights[root] ELSE 0
    IN IF max_weight = 0 THEN 1 ELSE 5 * max_weight + 4 * root_weight

ChordScore(root, test, pitch_classes, key_estimate, pc_weights) ==
    LET intervals_set == {(p - root) % 12 : p \in SeqToSet(pitch_classes)}
        exact == IF intervals_set = test.req THEN 3 ELSE 2
        lowest == IF root = SetMin(SeqToSet(pitch_classes)) THEN 13 ELSE 10
        in_key == IF _is_in_key(root, key_estimate) THEN 6 ELSE 5
        tonic == IF /\ root = key_estimate.key_pc
                    /\ \/ key_estimate.mode = "major" /\ test.type = "major"
                       \/ key_estimate.mode = "minor" /\ test.type = "minor"
                 THEN 7 ELSE 5
    IN [a |-> test.base * Cardinality(test.req) * exact * lowest * in_key * tonic,
        b |-> RootWeightFactor(root, pc_weights)]

RECURSIVE BestForRoot(_, _, _, _, _, _)
\* the inner loop over chord_tests for one root; best is
\* [found, score, symbol, chord_type, root] and changes only on a strictly
\* greater score
BestForRoot(pitch_classes, key_estimate, pc_weights, root, t, best) ==
    IF t > Len(chord_tests) THEN best
    ELSE LET test == chord_tests[t]
             intervals_set == {(p - root) % 12 : p \in SeqToSet(pitch_classes)}
             score == ChordScore(root, test, pitch_classes, key_estimate, pc_weights)
             next_best ==
               IF /\ test.req \subseteq intervals_set
                  /\ ScoreGreater(score, best.score)
               THEN [found |-> TRUE, score |-> score,
                     symbol |-> <<NoteName(root), test.suffix>>,
                     chord_type |-> test.type, root |-> root]
               ELSE best
         IN CASE Evaluated(next_best) ->
                 BestForRoot(pitch_classes, key_estimate, pc_weights, root, t + 1, next_best)

RECURSIVE BestChord(_, _, _, _, _)
\* the outer loop: the roots in the order of pitch_classes
BestChord(pitch_classes, key_estimate, pc_weights, r, best) ==
    IF r > Len(pitch_classes) THEN best
    ELSE LET next_best == BestForRoot(pitch_classes, key_estimate, pc_weights,
                                      pitch_classes[r], 1, best)
         IN CASE Evaluated(next_best) ->
                 BestChord(pitch_classes, key_estimate, pc_weights, r + 1, next_best)

\* the fallback named after the first pitch class of the list instead of the
\* lowest
_identify_chord_fallback_first(pitch_classes, key_estimate, pc_weights) ==
    IF pitch_classes = <<>> THEN [symbol |-> NoChordLabel, chord_type |-> "unknown"]
    ELSE LET best == BestChord(pitch_classes, key_estimate, pc_weights, 1,
                        [found |-> FALSE, score |-> [a |-> 0, b |-> 0],
                         symbol |-> NoChordLabel, chord_type |-> "unknown", root |-> 0])
         IN IF best.found
            THEN [symbol |-> best.symbol, chord_type |-> best.chord_type]
            ELSE [symbol |-> <<NoteName(pitch_classes[1]), "?">>,
                  chord_type |-> "unknown"]

\* returns [symbol, chord_type]
_identify_chord(pitch_classes, key_estimate, pc_weights) ==
    IF pitch_classes = <<>> THEN [symbol |-> NoChordLabel, chord_type |-> "unknown"]
    ELSE LET best == BestChord(pitch_classes, key_estimate, pc_weights, 1,
                        [found |-> FALSE, score |-> [a |-> 0, b |-> 0],
                         symbol |-> NoChordLabel, chord_type |-> "unknown", root |-> 0])
         IN IF best.found
            THEN [symbol |-> best.symbol, chord_type |-> best.chord_type]
            ELSE [symbol |-> <<NoteName(SetMin(SeqToSet(pitch_classes))), "?">>,
                  chord_type |-> "unknown"]

----------------------------------------------------------------------------
(* ChordInferenceEngine: windowed detection *)

Overlap(note, start_time, end_time) ==
    Max(0, Min(note.offset, end_time) - Max(note.onset, start_time))

\* pc_weights[pc] += note.confidence * overlap_duration, as a function on the
\* pitch classes of the window's notes (units: hundredths * centiseconds)
WindowWeights(notes, start_time, end_time) ==
    [p \in {pitch_class(notes[k]) : k \in 1..Len(notes)} |->
        SumSeq([k \in 1..Len(notes) |->
                  IF pitch_class(notes[k]) = p
                  THEN notes[k].confidence * Overlap(notes[k], start_time, end_time)
                  ELSE 0])]

\* the cap of 6 applied to the pitch classes in the dict's insertion order,
\* before the sort by weight
SignificantPcsFirstSix(notes, pc_weights) ==
    LET keys == PitchClassOrder(notes)
        max_weight == SetMax({pc_weights[keys[i]] : i \in 1..Len(keys)})
        Heavy(p) == 5 * pc_weights[p] >= max_weight
        significant_pcs == SelectSeq(keys, Heavy)
    IN SubSeq(significant_pcs, 1, Min(6, Len(significant_pcs)))

\* sorted(pc_weights.items(), key=weight, reverse=True): heaviest first, equal
\* weights in the dict's insertion order; then the 20% threshold and the cap
SignificantPcs(notes, pc_weights) ==
    LET keys == PitchClassOrder(notes)
        sorted_pcs == StableSort(keys, [i \in 1..Len(keys) |-> - pc_weights[keys[i]]])
        max_weight == pc_weights[sorted_pcs[1]]
        Heavy(p) == 5 * pc_weights[p] >= max_weight
        significant_pcs == SelectSeq(sorted_pcs, Heavy)
    IN SubSeq(significant_pcs, 1, Min(6, Len(significant_pcs)))

\* the average weight without the clamp
WindowConfidenceUnclamped(total_weight, n) == Frac(total_weight, 10000 * n)

\* min(total_weight / len(notes), 1.0) as a fraction of 1
WindowConfidence(total_weight, n) ==
    IF total_weight >= 10000 * n THEN FracOne ELSE Frac(total_weight, 10000 * n)

\* the chosen root_pc of a window chord
WindowRoot(significant_pcs) == SetMin(SeqToSet(significant_pcs))

\* a window chord accepted from a single significant pitch class
EnoughPitchClassesOne(significant_pcs) == Len(significant_pcs) >= 1

\* the negation of `len(significant_pcs) < MIN_NOTES_PER_CHORD`
EnoughPitchClasses(significant_pcs) == Len(significant_pcs) >= MIN_NOTES_PER_CHORD

\* returns <<>> for None and <<chord>> for a chord
_analyze_window(notes, start_time, end_time, key_estimate) ==
    IF notes = <<>> THEN <<>>
    ELSE LET pc_weights == WindowWeights(notes, start_time, end_time)
             significant_pcs == SignificantPcs(notes, pc_weights)
         IN IF ~ EnoughPitchClasses(significant_pcs) THEN <<>>
            ELSE LET id == _identify_chord(significant_pcs, key_estimate, pc_weights)
                     total_weight == SumSeq([k \in 1..Len(notes) |->
                         notes[k].confidence * Overlap(notes[k], start_time, end_time)])
                 IN << ChordEvent(start_time, end_time, id.symbol,
                                  WindowConfidence(total_weight, Len(notes)),
                                  SeqToSet(significant_pcs),
                                  WindowRoot(significant_pcs),
                                  id.chord_type) >>

RECURSIVE WindowLoop(_, _, _, _)
WindowLoop(sorted_events, key_estimate, current_time, end_time) ==
    IF ~ (current_time < end_time) THEN <<>>
    ELSE LET window_end == current_time + WINDOW_SIZE
             Active(event) == event.onset < window_end /\ event.offset > current_time
             window_notes == SelectSeq(sorted_events, Active)
             found == IF Len(window_notes) >= MIN_NOTES_PER_CHORD
                      THEN _analyze_window(window_notes, current_time, window_end,
                                           key_estimate)
                      ELSE <<>>
         IN found \o WindowLoop(sorted_events, key_estimate,
                                current_time + WINDOW_SIZE - WINDOW_OVERLAP, end_time)

\* the division of line 614 done for every root, whatever its weight
RootHasWeightAlways(root_weight) == TRUE

\* line 613: `if root_weight > 0`, the guard of root_weight / max_weight
RootHasWeight(root_weight) == root_weight > 0

\* the exception _identify_chord raises in its root strength weighting, ""
\* for none: pc_weights.get(root, 0.0) / max(pc_weights.values())
IdentifyChordError(pitch_classes, pc_weights) ==
    IF pitch_classes = <<>> \/ DOMAIN pc_weights = {} THEN ""
    ELSE LET max_weight == SetMax({pc_weights[p] : p \in DOMAIN pc_weights})
             root_weight(root) == IF root \in DOMAIN pc_weights THEN pc_weights[root] ELSE 0
         IN IF \E r \in 1..Len(pitch_classes) :
                   RootHasWeight(root_weight(pitch_classes[r])) /\ max_weight = 0
            THEN "ZeroDivisionError"
            ELSE ""

\* the exception _analyze_window raises, "" for none: sorted_pcs[0] of an
\* empty histogram, the exception of _identify_chord, min(significant_pcs) of
\* an empty list (total_weight / len(notes) is guarded by `if notes`)
AnalyzeWindowError(notes, start_time, end_time) ==
    IF notes = <<>> THEN ""
    ELSE LET pc_weights == WindowWeights(notes, start_time, end_time)
         IN IF DOMAIN pc_weights = {} THEN ""
            ELSE LET significant_pcs == SignificantPcs(notes, pc_weights)
                 IN IF ~ EnoughPitchClasses(significant_pcs) THEN ""
                    ELSE IF IdentifyChordError(significant_pcs, pc_weights) # ""
                    THEN IdentifyChordError(significant_pcs, pc_weights)
                    ELSE IF significant_pcs = <<>> THEN "ValueError"
                    ELSE ""

\* the exception of the first window of _detect_chords_in_windows that raises
\* one, "" for none
DetectChordsError(events) ==
    IF events = <<>> THEN ""
    ELSE LET sorted_events == StableSort(events, [i \in 1..Len(events) |-> events[i].onset])
             start_time == sorted_events[1].onset
             end_time == SetMax({sorted_events[i].offset : i \in 1..Len(sorted_events)})
             step == WINDOW_SIZE - WINDOW_OVERLAP
             starts == {t \in start_time..(end_time - 1) : (t - start_time) % step = 0}
             WindowNotes(t) ==
                 LET Active(event) == event.onset < t + WINDOW_SIZE /\ event.offset > t
                 IN SelectSeq(sorted_events, Active)
             Error(t) == IF Len(WindowNotes(t)) >= MIN_NOTES_PER_CHORD
                         THEN AnalyzeWindowError(WindowNotes(t), t, t + WINDOW_SIZE)
                         ELSE ""
             failing == {t \in starts : Error(t) # ""}
         IN IF failing = {} THEN "" ELSE Error(SetMin(failing))

_detect_chords_in_windows(events, key_estimate) ==
    IF events = <<>> THEN <<>>
    ELSE LET sorted_events == StableSort(events, [i \in 1..Len(events) |-> events[i].onset])
             start_time == sorted_events[1].onset
             end_time == SetMax({sorted_events[i].offset : i \in 1..Len(sorted_events)})
         IN WindowLoop(sorted_events, key_estimate, start_time, end_time)

----------------------------------------------------------------------------
(* ChordInferenceEngine: harmony filter *)

\* the root test skipped below a key confidence of 0.5, the threshold of
\* _is_in_key, instead of 0.6
_is_chord_root_in_key_half(chord, key_estimate) ==
    IF CorrLt(key_estimate.confidence, 1, 2) THEN TRUE
    ELSE _is_in_key(chord.root_pc, key_estimate)

_is_chord_root_in_key(chord, key_estimate) ==
    IF CorrLt(key_estimate.confidence, 3, 5) THEN TRUE
    ELSE _is_in_key(chord.root_pc, key_estimate)

_chord_repeats(target_chord, all_chords) ==
    Cardinality({i \in 1..Len(all_chords) :
                    all_chords[i].chord_symbol = target_chord.chord_symbol}) >= 2

\* any(symbol in chord.chord_symbol for symbol in ['?', '!']): of the strings
\* the identifier builds, only the fallback suffix "?" holds either character
IsWeirdSymbol(chord_symbol) == chord_symbol[2] = "?"

HarmonyKeep(chord, chords, key_estimate) ==
    IF /\ IsWeirdSymbol(chord.chord_symbol)
       /\ FracLt(chord.confidence, 3, 5)
       /\ duration(chord) < 100
    THEN FALSE
    ELSE LET is_root_in_key == _is_chord_root_in_key(chord, key_estimate)
         IN IF chord.chord_type \in FUNCTIONAL_CHORDS /\ is_root_in_key THEN TRUE
            ELSE IF ~ is_root_in_key
            THEN \/ FracGeq(chord.confidence, 7, 10) /\ duration(chord) >= 100
                 \/ chord.chord_type = "m11" /\ FracGeq(chord.confidence, 3, 5)
            ELSE \/ FracGeq(chord.confidence, 3, 10)
                 \/ duration(chord) >= 60
                 \/ _chord_repeats(chord, chords)

_apply_harmony_filtering(chords, key_estimate) ==
    LET Keep(chord) == HarmonyKeep(chord, chords, key_estimate) IN SelectSeq(chords, Keep)

----------------------------------------------------------------------------
(* ChordWindowSmoother *)

timeline_resolution == 50

\* max(3, int(1.0 / timeline_resolution))
filter_window == Max(3, 100 \div timeline_resolution)

\* a grid that starts one step before start_time
TimelinePointsEarly(start_time, end_time) ==
    [k \in 1..((end_time - start_time) \div timeline_resolution + 2) |->
        start_time + (k - 2) * timeline_resolution]

\* start_time, start_time + 0.5, ... while <= end_time
TimelinePoints(start_time, end_time) ==
    [k \in 1..((end_time - start_time) \div timeline_resolution + 1) |->
        start_time + (k - 1) * timeline_resolution]

\* the symbol of the first chord of the list that is active at time_point
ActiveSymbol(chord_events, time_point) ==
    LET active == {i \in 1..Len(chord_events) :
                     chord_events[i].onset <= time_point
                     /\ time_point < chord_events[i].offset}
    IN IF active = {} THEN NoChordLabel ELSE chord_events[SetMin(active)].chord_symbol

\* of equally frequent labels the one met last
MostCommonLast(window_symbols) ==
    LET NotN(sym) == sym # NoChordLabel
        labels == Distinct(SelectSeq(window_symbols, NotN))
        count(sym) == Cardinality({i \in 1..Len(window_symbols) : window_symbols[i] = sym})
        best == {k \in 1..Len(labels) :
                    \A j \in 1..Len(labels) : count(labels[k]) >= count(labels[j])}
    IN IF labels = <<>> THEN NoChordLabel ELSE labels[SetMax(best)]

\* Counter(...).most_common(1)[0][0]: the most frequent label, the one met
\* first among equally frequent ones; "N" when only "N" is in the window
MostCommon(window_symbols) ==
    LET NotN(sym) == sym # NoChordLabel
        labels == Distinct(SelectSeq(window_symbols, NotN))
        count(sym) == Cardinality({i \in 1..Len(window_symbols) : window_symbols[i] = sym})
        best == {k \in 1..Len(labels) :
                    \A j \in 1..Len(labels) : count(labels[k]) >= count(labels[j])}
    IN IF labels = <<>> THEN NoChordLabel ELSE labels[SetMin(best)]

SmoothSymbols(chord_symbols) ==
    [i \in 1..Len(chord_symbols) |->
        LET window_start == Max(0, (i - 1) - filter_window \div 2)
            window_end == Min(Len(chord_symbols), window_start + filter_window)
        IN MostCommon(SubSeq(chord_symbols, window_start + 1, window_end))]

\* a chord emitted for every run of the timeline, with the data of the first
\* chord of the list when no chord has the run's label
RebuildChordAnyLabel(chord_events, current_symbol, onset, offset) ==
    LET same == {i \in 1..Len(chord_events) : chord_events[i].chord_symbol = current_symbol}
        original_chord == IF same = {} THEN chord_events[1] ELSE chord_events[SetMin(same)]
    IN << ChordEvent(onset, offset, current_symbol, original_chord.confidence,
                     original_chord.pitch_classes, original_chord.root_pc,
                     original_chord.chord_type) >>

\* the data of the last chord of the list that has the run's label
RebuildChordFromLast(chord_events, current_symbol, onset, offset) ==
    LET same == {i \in 1..Len(chord_events) : chord_events[i].chord_symbol = current_symbol}
    IN IF current_symbol = NoChordLabel \/ same = {} THEN <<>>
       ELSE LET original_chord == chord_events[SetMax(same)]
            IN << ChordEvent(onset, offset, current_symbol, original_chord.confidence,
                             original_chord.pitch_classes, original_chord.root_pc,
                             original_chord.chord_type) >>

\* next(c for c in chord_events if c.chord_symbol == current_symbol), with the
\* grid's onset and offset; <<>> when the label is "N" or no chord has it
RebuildChord(chord_events, current_symbol, onset, offset) ==
    LET same == {i \in 1..Len(chord_events) : chord_events[i].chord_symbol = current_symbol}
    IN IF current_symbol = NoChordLabel \/ same = {} THEN <<>>
       ELSE LET original_chord == chord_events[SetMin(same)]
            IN << ChordEvent(onset, offset, current_symbol, original_chord.confidence,
                             original_chord.pitch_classes, original_chord.root_pc,
                             original_chord.chord_type) >>

RECURSIVE Regroup(_, _, _, _, _, _, _)
\* the loop over i = 1 .. len - 1 (0-based) and the "last chord" after it; i
\* is the 1-based index of the point examined
Regroup(chord_events, smoothed_symbols, timeline_points, end_time, i, current_symbol, current_start_time) ==
    IF i > Len(smoothed_symbols)
    THEN RebuildChord(chord_events, current_symbol, current_start_time, end_time)
    ELSE IF smoothed_symbols[i] # current_symbol \/ i = Len(smoothed_symbols)
    THEN RebuildChord(chord_events, current_symbol, current_start_time,
                      timeline_points[i - 1] + timeline_resolution)
         \o Regroup(chord_events, smoothed_symbols, timeline_points, end_time, i + 1,
                    smoothed_symbols[i], timeline_points[i])
    ELSE CASE Evaluated(<<current_symbol, current_start_time>>) ->
              Regroup(chord_events, smoothed_symbols, timeline_points, end_time, i + 1,
                      current_symbol, current_start_time)

smooth_chord_progression(chord_events) ==
    IF Len(chord_events) <= 2 THEN chord_events
    ELSE LET start_time == SetMin({chord_events[i].onset : i \in 1..Len(chord_events)})
             end_time == SetMax({chord_events[i].offset : i \in 1..Len(chord_events)})
         IN IF end_time - start_time <= 0 THEN chord_events
            ELSE LET timeline_points == TimelinePoints(start_time, end_time)
                     chord_symbols == [k \in 1..Len(timeline_points) |->
                                         ActiveSymbol(chord_events, timeline_points[k])]
                 IN IF Len(chord_symbols) >= filter_window
                    THEN LET smoothed_symbols == SmoothSymbols(chord_symbols)
                         IN Regroup(chord_events, smoothed_symbols, timeline_points,
                                    end_time, 2, smoothed_symbols[1], timeline_points[1])
                    ELSE chord_events

----------------------------------------------------------------------------
(* ChordInferenceEngine: merge and stability *)

\* chords merged only when they carry the same symbol
ShouldMergeSameSymbol(current, next_chord) ==
    LET time_gap == next_chord.onset - current.offset
        same_chord == current.chord_symbol = next_chord.chord_symbol
        close_in_time == time_gap <= MERGE_THRESHOLD
        overlapping == next_chord.onset < current.offset
    IN same_chord /\ (close_in_time \/ overlapping)

ShouldMerge(current, next_chord) ==
    LET time_gap == next_chord.onset - current.offset
        same_chord == current.chord_symbol = next_chord.chord_symbol
        similar_chord == /\ current.root_pc = next_chord.root_pc
                         /\ current.chord_type = next_chord.chord_type
        close_in_time == time_gap <= MERGE_THRESHOLD
        overlapping == next_chord.onset < current.offset
    IN (same_chord /\ (close_in_time \/ overlapping)) \/ (similar_chord /\ overlapping)

\* a merge that keeps only the pitch classes common to both chords
MergePairIntersection(current, next_chord) ==
    ChordEvent(current.onset,
               Max(current.offset, next_chord.offset),
               current.chord_symbol,
               FracAvg(current.confidence, next_chord.confidence),
               current.pitch_classes \cap next_chord.pitch_classes,
               current.root_pc,
               current.chord_type)

MergePair(current, next_chord) ==
    ChordEvent(current.onset,
               Max(current.offset, next_chord.offset),
               current.chord_symbol,
               FracAvg(current.confidence, next_chord.confidence),
               current.pitch_classes \cup next_chord.pitch_classes,
               current.root_pc,
               current.chord_type)

RECURSIVE MergeLoop(_, _)
MergeLoop(current, rest) ==
    IF rest = <<>> THEN <<current>>
    ELSE IF ShouldMerge(current, Head(rest))
    THEN LET merged == MergePair(current, Head(rest))
         IN CASE Evaluated(merged) -> MergeLoop(merged, Tail(rest))
    ELSE <<current>> \o MergeLoop(Head(rest), Tail(rest))

_merge_similar_chords(chords) ==
    IF Len(chords) <= 1 THEN chords ELSE MergeLoop(chords[1], Tail(chords))

\* a stability filter that drops only chords of no length
_ensure_stability_nonempty(chords) ==
    LET Stable(chord) == duration(chord) > 0 IN SelectSeq(chords, Stable)

_ensure_stability(chords) ==
    LET Stable(chord) == duration(chord) >= MIN_CHORD_DURATION IN SelectSeq(chords, Stable)

----------------------------------------------------------------------------
(* process_note_events: conversion of the raw records *)

\* A raw field value is [k, v]: k = "num" a number (v in the model's units),
\* "float10" a float with a fractional part (v in tenths), "numstr" a string
\* holding a decimal literal, "str" any other string, "none" None, "inf"
\* float('inf'), "missing" an absent key.  A raw record is a dict of the four
\* fields, or (isdict = FALSE) an object that is no dict.
Raw(k, v) == [k |-> k, v |-> v]

Num(v) == Raw("num", v)

RawRecord(onset, offset, pitch, confidence) ==
    [isdict |-> TRUE, onset |-> onset, offset |-> offset, pitch |-> pitch,
     confidence |-> confidence]

RawNote(onset, offset, pitch, confidence) ==
    RawRecord(Num(onset), Num(offset), Num(pitch), Num(confidence))

NotADict == [isdict |-> FALSE, onset |-> Raw("missing", 0), offset |-> Raw("missing", 0),
             pitch |-> Raw("missing", 0), confidence |-> Raw("missing", 0)]

Converted(v) == [exc |-> "", v |-> v]

Raised(exc) == [exc |-> exc, v |-> 0]

\* note_dict[field] followed by float(...)
PyFloat(x) ==
    CASE x.k = "missing" -> Raised("KeyError")
      [] x.k = "none"    -> Raised("TypeError")
      [] x.k = "str"     -> Raised("ValueError")
      [] x.k = "num"     -> Converted(x.v)
      [] x.k = "numstr"  -> Converted(x.v)

\* note_dict[field] followed by int(...): a float is truncated, an infinite
\* one raises OverflowError
PyInt(x) ==
    CASE x.k = "missing" -> Raised("KeyError")
      [] x.k = "none"    -> Raised("TypeError")
      [] x.k = "str"     -> Raised("ValueError")
      [] x.k = "num"     -> Converted(x.v)
      [] x.k = "numstr"  -> Converted(x.v)
      [] x.k = "float10" -> Converted(x.v \div 10)
      [] x.k = "inf"     -> Raised("OverflowError")

\* NoteEvent(onset=float(..), offset=float(..), pitch=int(..), confidence=float(..)):
\* the arguments are evaluated in this order and the first exception wins
ConvertRecord(note_dict) ==
    IF ~ note_dict.isdict THEN [exc |-> "TypeError", note |-> NoteEvent(0, 0, 0, 0)]
    ELSE LET onset == PyFloat(note_dict.onset)
             offset == PyFloat(note_dict.offset)
             pitch == PyInt(note_dict.pitch)
             confidence == PyFloat(note_dict.confidence)
             exc == IF onset.exc # "" THEN onset.exc
                    ELSE IF offset.exc # "" THEN offset.exc
                    ELSE IF pitch.exc # "" THEN pitch.exc
                    ELSE confidence.exc
         IN [exc |-> exc, note |-> NoteEvent(onset.v, offset.v, pitch.v, confidence.v)]

CaughtExceptions == {"KeyError", "ValueError", "TypeError"}

RECURSIVE ConvertLoop(_)
\* the for loop with its try/except: [exc, notes]; an exception that the
\* except clause does not name leaves the function
ConvertLoop(raw) ==
    IF raw = <<>> THEN [exc |-> "", notes |-> <<>>]
    ELSE LET c == ConvertRecord(Head(raw))
         IN IF c.exc = ""
            THEN LET rest == ConvertLoop(Tail(raw))
                 IN [exc |-> rest.exc, notes |-> <<c.note>> \o rest.notes]
            ELSE IF c.exc \in CaughtExceptions THEN ConvertLoop(Tail(raw))
            ELSE [exc |-> c.exc, notes |-> <<>>]

DefaultKeyInfo == [key |-> "C", mode |-> "major", confidence |-> CorrZero]

\* list(chord.pitch_classes) is kept as the set: the order of the list is the
\* iteration order of a Python set
ChordDict(chord) ==
    [onset |-> chord.onset, offset |-> chord.offset,
     chord |-> SymbolString(chord.chord_symbol), confidence |-> chord.confidence,
     pitch_classes |-> chord.pitch_classes]

KeyInfo(key_estimate) ==
    [key |-> NoteName(key_estimate.key_pc), mode |-> key_estimate.mode,
     confidence |-> key_estimate.confidence]

----------------------------------------------------------------------------
(* Inputs *)

\* test_chord_inference.py, create_test_note_events: C major, A minor, F major
\* and G major triads of two seconds each, with three noise notes
TestScenario ==
    << RawNote(0, 200, 60, 90), RawNote(0, 200, 64, 80), RawNote(0, 200, 67, 85),
       RawNote(10, 12, 50, 10), RawNote(50, 53, 75, 5),
       RawNote(200, 400, 57, 85), RawNote(200, 400, 60, 90), RawNote(200, 400, 64, 80),
       RawNote(220, 280, 63, 10),
       RawNote(400, 600, 53, 90), RawNote(400, 600, 57, 85), RawNote(400, 600, 60, 80),
       RawNote(600, 800, 55, 90), RawNote(600, 800, 59, 80), RawNote(600, 800, 62, 85) >>

\* test_chord_inference.py, test_edge_cases: single_note, short_notes and
\* low_conf_notes (the empty list is among the free lists below)
EdgeCases ==
    { << RawNote(0, 100, 60, 80) >>,
      << RawNote(0, 1, 60, 80), RawNote(10, 20, 64, 80), RawNote(30, 40, 67, 80) >>,
      << RawNote(0, 100, 60, 5), RawNote(0, 100, 64, 80), RawNote(0, 100, 67, 70) >> }

\* numeric degeneracy.  One note on each of the 12 pitch classes, all of one
\* weight (the same duration and confidence, or durations and confidences of
\* one product); notes of confidence 0 (a window whose weights are all zero,
\* and a window where only one pitch class has weight); two equal notes a
\* tritone apart (a histogram that transposition by 6 leaves unchanged, so
\* that the keys of roots r and r + 6 correlate equally); eight pitch
\* classes in one window, the first the lightest of seven significant ones
\* and the last below the 20% threshold; an augmented triad whose two
\* heaviest pitch classes weigh the same, the higher one played first
DegenerateInputs ==
    { [p \in 1..12 |-> RawNote(0, 100, 59 + p, 80)],
      [p \in 1..12 |-> IF p % 2 = 0 THEN RawNote(0, 100, 59 + p, 80)
                                    ELSE RawNote(0, 200, 59 + p, 40)],
      << RawNote(0, 100, 61, 0), RawNote(0, 100, 64, 0), RawNote(0, 100, 67, 0) >>,
      << RawNote(0, 100, 60, 0), RawNote(0, 100, 64, 0), RawNote(0, 100, 67, 80) >>,
      << RawNote(0, 100, 66, 80), RawNote(0, 100, 60, 80) >>,
      [p \in 1..8 |-> RawNote(0, 100, 59 + p,
                              IF p = 1 THEN 40 ELSE IF p = 8 THEN 5 ELSE 80)],
      << RawNote(0, 100, 68, 80), RawNote(0, 100, 64, 80), RawNote(0, 100, 60, 32) >> }

\* the records of the free lists: well-formed notes (two of one pitch class,
\* one shorter than MIN_NOTE_DURATION), records that raise inside the
\* conversion, and records whose fields are converted although they are no
\* numbers of the declared type
RecordPool ==
    { RawNote(0, 100, 60, 80),
      RawNote(0, 100, 64, 70),
      RawNote(50, 150, 72, 50),
      RawNote(0, 5, 67, 80),
      RawRecord(Num(0), Raw("missing", 0), Num(60), Num(80)),
      RawRecord(Num(0), Num(100), Raw("none", 0), Num(80)),
      RawRecord(Num(0), Num(100), Num(60), Raw("str", 0)),
      RawRecord(Num(0), Num(100), Raw("inf", 0), Num(80)),
      NotADict,
      RawRecord(Raw("numstr", 0), Raw("numstr", 100), Raw("numstr", 67), Raw("numstr", 80)),
      RawRecord(Num(0), Num(100), Raw("float10", 649), Num(80)) }

MaxRecords == 2

FreeLists == UNION {[1..n -> RecordPool] : n \in 0..MaxRecords}

\* the segments of a progression: the pitches sounding together and their
\* confidence
SegmentMenu ==
    { [pitches |-> <<60, 64, 67>>, confidence |-> 90],
      [pitches |-> <<62, 67>>, confidence |-> 90],
      [pitches |-> <<67, 71>>, confidence |-> 80],
      [pitches |-> <<60, 61>>, confidence |-> 20],
      [pitches |-> <<60, 72>>, confidence |-> 90],
      [pitches |-> <<66, 70>>, confidence |-> 30] }

\* a segment lasts one window hop, so that every window hears its own segment
\* and the tail of the one before
SegmentLength == WINDOW_SIZE - WINDOW_OVERLAP

MaxSegments == 3

SegmentNotes(segment, k) ==
    [j \in 1..Len(segment.pitches) |->
        RawNote((k - 1) * SegmentLength, k * SegmentLength, segment.pitches[j],
                segment.confidence)]

Progression(segments) == Concat([k \in 1..Len(segments) |-> SegmentNotes(segments[k], k)])

Progressions == {Progression(segments) :
                    segments \in UNION {[1..n -> SegmentMenu] : n \in 1..MaxSegments}}

NoteInputs ==
    {TestScenario} \cup EdgeCases \cup DegenerateInputs \cup FreeLists \cup Progressions

----------------------------------------------------------------------------
(* The pipeline as a state machine: one call of process_note_events, one
   action per stage of infer_chords *)

VARIABLES
    entry,                    \* "process_note_events", or "stages" for a direct
                              \* use of the three chord-list stages
    pc,                       \* the stage to run next
    raw_notes,                \* the argument of process_note_events
    note_events,
    smoothed_events,
    filtered_events,
    key_estimate,
    key_filtered_events,
    raw_chords,
    harmony_filtered_chords,
    smoothed_chords,
    merged_chords,
    stable_chords,
    remerged_chords,          \* the merge and the stability stage applied once
    restable_chords,          \* more to stable_chords (direct use only)
    stats,                    \* engine.stats
    result,                   \* <<>> until the call returns, then <<[chords, key]>>
    exception,                \* the exception that left the call, "" if none
    invocations               \* the invocations of infer_chords on one shared
                              \* engine (reuse of an engine only)

vars == << entry, pc, raw_notes, note_events, smoothed_events, filtered_events,
           key_estimate, key_filtered_events, raw_chords, harmony_filtered_chords,
           smoothed_chords, merged_chords, stable_chords, remerged_chords,
           restable_chords, stats, result, exception, invocations >>

notes_vars == << note_events, smoothed_events, filtered_events, key_filtered_events >>

chords_vars == << raw_chords, harmony_filtered_chords, smoothed_chords, merged_chords,
                  stable_chords >>

again_vars == << remerged_chords, restable_chords >>

NoKeyEstimate == KeyEstimate(0, "major", CorrZero)

\* stats[name] = value
SetStat(name, value) == (name :> value) @@ stats

Init ==
    /\ entry = "process_note_events"
    /\ pc = "convert"
    /\ raw_notes \in NoteInputs
    /\ note_events = <<>>
    /\ smoothed_events = <<>>
    /\ filtered_events = <<>>
    /\ key_estimate = NoKeyEstimate
    /\ key_filtered_events = <<>>
    /\ raw_chords = <<>>
    /\ harmony_filtered_chords = <<>>
    /\ smoothed_chords = <<>>
    /\ merged_chords = <<>>
    /\ stable_chords = <<>>
    /\ remerged_chords = <<>>
    /\ restable_chords = <<>>
    /\ stats = <<>>
    /\ result = <<>>
    /\ exception = ""
    /\ invocations = <<>>

\* process_note_events up to the call of infer_chords: the conversion loop, the
\* early return on an empty list, the construction of the engine and
\* stats.clear()
ConvertInput ==
    /\ pc = "convert"
    /\ LET c == ConvertLoop(raw_notes)
       IN IF c.exc # ""
          THEN /\ pc' = "raised"
               /\ exception' = c.exc
               /\ UNCHANGED << note_events, result >>
          ELSE IF c.notes = <<>>
          THEN /\ pc' = "returned"
               /\ result' = << [chords |-> <<>>, key |-> DefaultKeyInfo] >>
               /\ UNCHANGED << note_events, exception >>
          ELSE /\ pc' = "smooth"
               /\ note_events' = c.notes
               /\ UNCHANGED << result, exception >>
    /\ stats' = <<>>
    /\ UNCHANGED << entry, invocations, raw_notes, smoothed_events, filtered_events, key_estimate,
                    key_filtered_events, chords_vars, again_vars >>

\* step 1 with the sort of line 234 done on the caller's list instead of on
\* the groups built from it
SmoothPitchInPlace ==
    /\ pc = "smooth"
    /\ note_events' = StableSort(note_events,
                                 [i \in 1..Len(note_events) |-> note_events[i].onset])
    /\ smoothed_events' = smooth_pitch_activity(note_events)
    /\ stats' = SetStat("smoothed_notes", Len(smoothed_events'))
    /\ pc' = "filter"
    /\ UNCHANGED << entry, invocations, raw_notes, filtered_events, key_estimate,
                    key_filtered_events, chords_vars, again_vars, result, exception >>

\* step 1; the lists sorted in place at line 234 are the groups built at lines
\* 222-224, so note_events is left as it was
SmoothPitch ==
    /\ pc = "smooth"
    /\ smoothed_events' = smooth_pitch_activity(note_events)
    /\ stats' = SetStat("smoothed_notes", Len(smoothed_events'))
    /\ pc' = "filter"
    /\ UNCHANGED << entry, invocations, raw_notes, note_events, filtered_events, key_estimate,
                    key_filtered_events, chords_vars, again_vars, result, exception >>

FilterShortNotes ==
    /\ pc = "filter"
    /\ filtered_events' = _filter_short_notes(smoothed_events)
    /\ stats' = SetStat("duration_filtered", Len(note_events) - Len(filtered_events'))
    /\ pc' = "key"
    /\ UNCHANGED << entry, invocations, raw_notes, note_events, smoothed_events, key_estimate,
                    key_filtered_events, chords_vars, again_vars, result, exception >>

\* step 3 on the notes of step 1 instead of those of step 2
EstimateKeyFromSmoothed ==
    /\ pc = "key"
    /\ key_estimate' = estimate_key(smoothed_events)
    /\ pc' = "keyfilter"
    /\ UNCHANGED << entry, invocations, raw_notes, notes_vars, chords_vars, again_vars, stats, result,
                    exception >>

EstimateKey ==
    /\ pc = "key"
    /\ key_estimate' = estimate_key(filtered_events)
    /\ pc' = "keyfilter"
    /\ UNCHANGED << entry, invocations, raw_notes, notes_vars, chords_vars, again_vars, stats, result,
                    exception >>

ApplyKeyFiltering ==
    /\ pc = "keyfilter"
    /\ key_filtered_events' = _apply_key_filtering(filtered_events, key_estimate)
    /\ stats' = SetStat("key_filtered", Len(filtered_events) - Len(key_filtered_events'))
    /\ pc' = "detect"
    /\ UNCHANGED << entry, invocations, raw_notes, note_events, smoothed_events, filtered_events,
                    key_estimate, chords_vars, again_vars, result, exception >>

DetectChords ==
    /\ pc = "detect"
    /\ IF DetectChordsError(key_filtered_events) # ""
       THEN /\ pc' = "raised"
            /\ exception' = DetectChordsError(key_filtered_events)
            /\ UNCHANGED << raw_chords, stats >>
       ELSE /\ raw_chords' = _detect_chords_in_windows(key_filtered_events, key_estimate)
            /\ stats' = SetStat("raw_chords", Len(raw_chords'))
            /\ pc' = "harmony"
            /\ UNCHANGED exception
    /\ UNCHANGED << entry, invocations, raw_notes, notes_vars, key_estimate, harmony_filtered_chords,
                    smoothed_chords, merged_chords, stable_chords, again_vars, result >>

ApplyHarmonyFiltering ==
    /\ pc = "harmony"
    /\ harmony_filtered_chords' = _apply_harmony_filtering(raw_chords, key_estimate)
    /\ stats' = SetStat("harmony_filtered", Len(raw_chords) - Len(harmony_filtered_chords'))
    /\ pc' = "chordsmooth"
    /\ UNCHANGED << entry, invocations, raw_notes, notes_vars, key_estimate, raw_chords, smoothed_chords,
                    merged_chords, stable_chords, again_vars, result, exception >>

SmoothChordProgression ==
    /\ pc = "chordsmooth"
    /\ smoothed_chords' = smooth_chord_progression(harmony_filtered_chords)
    /\ stats' = SetStat("smoothed_chords",
                        Len(harmony_filtered_chords) - Len(smoothed_chords'))
    /\ pc' = "merge"
    /\ UNCHANGED << entry, invocations, raw_notes, notes_vars, key_estimate, raw_chords,
                    harmony_filtered_chords, merged_chords, stable_chords, again_vars,
                    result, exception >>

MergeSimilarChords ==
    /\ pc = "merge"
    /\ merged_chords' = _merge_similar_chords(smoothed_chords)
    /\ stats' = SetStat("merged_chords", Len(smoothed_chords) - Len(merged_chords'))
    /\ pc' = "stability"
    /\ UNCHANGED << entry, invocations, raw_notes, notes_vars, key_estimate, raw_chords,
                    harmony_filtered_chords, smoothed_chords, stable_chords, again_vars,
                    result, exception >>

EnsureStability ==
    /\ pc = "stability"
    /\ stable_chords' = _ensure_stability(merged_chords)
    /\ stats' = SetStat("final_chords", Len(stable_chords'))
    /\ pc' = IF entry = "process_note_events" THEN "output" ELSE "remerge"
    /\ UNCHANGED << entry, invocations, raw_notes, notes_vars, key_estimate, raw_chords,
                    harmony_filtered_chords, smoothed_chords, merged_chords, again_vars,
                    result, exception >>

\* process_note_events after infer_chords: the output dictionaries
ConvertOutput ==
    /\ pc = "output"
    /\ result' = << [chords |-> [i \in 1..Len(stable_chords) |-> ChordDict(stable_chords[i])],
                     key |-> KeyInfo(key_estimate)] >>
    /\ pc' = "returned"
    /\ UNCHANGED << entry, invocations, raw_notes, notes_vars, key_estimate, chords_vars, again_vars,
                    stats, exception >>

Next ==
    \/ ConvertInput
    \/ SmoothPitch
    \/ FilterShortNotes
    \/ EstimateKey
    \/ ApplyKeyFiltering
    \/ DetectChords
    \/ ApplyHarmonyFiltering
    \/ SmoothChordProgression
    \/ MergeSimilarChords
    \/ EnsureStability
    \/ ConvertOutput

Spec == Init /\ [][Next]_vars

----------------------------------------------------------------------------
(* The three chord-list stages used directly on a chord list, and the merge
   and the stability stage applied a second time to their own output *)

\* the chords of the lists: G and D stand for windows whose lowest pitch class
\* is D, so that they share root_pc and chord_type under different symbols
ChordKinds ==
    { [chord_symbol |-> <<"C", "">>, confidence |-> Frac(9, 10),
       pitch_classes |-> {0, 4, 7}, root_pc |-> 0, chord_type |-> "major"],
      [chord_symbol |-> <<"G", "">>, confidence |-> Frac(4, 5),
       pitch_classes |-> {2, 7, 11}, root_pc |-> 2, chord_type |-> "major"],
      [chord_symbol |-> <<"D", "">>, confidence |-> Frac(1, 2),
       pitch_classes |-> {2, 6, 9}, root_pc |-> 2, chord_type |-> "major"] }

\* from the offset of a chord to the onset of the next one: an overlap as
\* between two windows, none, and the gap a window without a chord leaves
\* (more than MERGE_THRESHOLD, and three points of the smoother's timeline)
ChordGaps == {0 - WINDOW_OVERLAP, 0, WINDOW_SIZE - 2 * WINDOW_OVERLAP}

\* durations below and above MIN_CHORD_DURATION
ChordLengths == {20, timeline_resolution}

MaxChords == 3

ChordSteps == [kind : ChordKinds, gap : ChordGaps, length : ChordLengths]

RECURSIVE ChordListFrom(_, _)
\* the chords of the steps, the first one starting at `offset + its gap`
ChordListFrom(steps, offset) ==
    IF steps = <<>> THEN <<>>
    ELSE LET step == Head(steps)
             onset == offset + step.gap
             chord == ChordEvent(onset, onset + step.length, step.kind.chord_symbol,
                                 step.kind.confidence, step.kind.pitch_classes,
                                 step.kind.root_pc, step.kind.chord_type)
         IN <<chord>> \o ChordListFrom(Tail(steps), chord.offset)

\* onset-sorted chord lists: every step is at least as long as the overlap,
\* and the first chord starts at 0
ChordLists ==
    { ChordListFrom(steps, 0 - Head(steps).gap) :
        steps \in UNION {[1..n -> ChordSteps] : n \in 1..MaxChords} } \cup {<<>>}

\* the chords handed to the harmony filter: types on and off the whitelist,
\* symbols with and without "?", roots in and outside the scale of C major,
\* confidences on both sides of 0.3, 0.6 and 0.7.  "D5" is a chord built by
\* a caller: the identifier gives the type unknown to "?" symbols only
HarmonyKinds ==
    { [chord_symbol |-> <<"C", "">>, confidence |-> Frac(9, 10),
       pitch_classes |-> {0, 4, 7}, root_pc |-> 0, chord_type |-> "major"],
      [chord_symbol |-> <<"D", "?">>, confidence |-> Frac(1, 2),
       pitch_classes |-> {2, 3}, root_pc |-> 2, chord_type |-> "unknown"],
      [chord_symbol |-> <<"C#", "?">>, confidence |-> Frac(4, 5),
       pitch_classes |-> {1, 2}, root_pc |-> 1, chord_type |-> "unknown"],
      [chord_symbol |-> <<"D", "5">>, confidence |-> Frac(1, 5),
       pitch_classes |-> {2, 9}, root_pc |-> 2, chord_type |-> "unknown"],
      [chord_symbol |-> <<"C#", "m11">>, confidence |-> Frac(13, 20),
       pitch_classes |-> {1, 3, 4, 6, 8, 11}, root_pc |-> 1, chord_type |-> "m11"],
      [chord_symbol |-> <<"F#", "">>, confidence |-> Frac(13, 20),
       pitch_classes |-> {1, 6, 10}, root_pc |-> 1, chord_type |-> "major"],
      [chord_symbol |-> <<"F#", "">>, confidence |-> Frac(4, 5),
       pitch_classes |-> {1, 6, 10}, root_pc |-> 1, chord_type |-> "major"] }

\* durations on both sides of 0.6 s and of 1.0 s
HarmonyLengths == {50, 80, 100}

MaxHarmonyChords == 2

\* chord lists for the harmony filter, each chord starting where the one
\* before ends
HarmonyLists ==
    { ChordListFrom(steps, 0) :
        steps \in UNION {[1..n -> [kind : HarmonyKinds, gap : {0}, length : HarmonyLengths]] :
                            n \in 1..MaxHarmonyChords} }

\* key estimates for the harmony filter: no key, and C major with a
\* confidence of 0.55 (between the 0.5 of _is_in_key and the 0.6 of
\* _is_chord_root_in_key) and of 1.0
HarmonyKeys ==
    { NoKeyEstimate,
      KeyEstimate(0, "major", [num |-> 11, vx |-> 20, vy |-> 20]),
      KeyEstimate(0, "major", CorrOne) }

ChordInit ==
    /\ entry = "stages"
    /\ raw_notes = <<>>
    /\ note_events = <<>>
    /\ smoothed_events = <<>>
    /\ filtered_events = <<>>
    /\ key_filtered_events = <<>>
    /\ \/ /\ key_estimate = NoKeyEstimate
          /\ raw_chords = <<>>
          /\ \E chords \in ChordLists :
                \/ /\ pc = "chordsmooth"
                   /\ harmony_filtered_chords = chords
                   /\ smoothed_chords = <<>>
                \/ /\ pc = "merge"
                   /\ harmony_filtered_chords = <<>>
                   /\ smoothed_chords = chords
       \/ /\ pc = "harmony"
          /\ key_estimate \in HarmonyKeys
          /\ raw_chords \in HarmonyLists
          /\ harmony_filtered_chords = <<>>
          /\ smoothed_chords = <<>>
    /\ merged_chords = <<>>
    /\ stable_chords = <<>>
    /\ remerged_chords = <<>>
    /\ restable_chords = <<>>
    /\ stats = <<>>
    /\ result = <<>>
    /\ exception = ""
    /\ invocations = <<>>

ReMerge ==
    /\ pc = "remerge"
    /\ remerged_chords' = _merge_similar_chords(stable_chords)
    /\ pc' = "restability"
    /\ UNCHANGED << entry, invocations, raw_notes, notes_vars, key_estimate, chords_vars,
                    restable_chords, stats, result, exception >>

ReStabilize ==
    /\ pc = "restability"
    /\ restable_chords' = _ensure_stability(remerged_chords)
    /\ pc' = "done"
    /\ UNCHANGED << entry, invocations, raw_notes, notes_vars, key_estimate, chords_vars,
                    remerged_chords, stats, result, exception >>

ChordNext ==
    \/ ApplyHarmonyFiltering
    \/ SmoothChordProgression
    \/ MergeSimilarChords
    \/ EnsureStability
    \/ ReMerge
    \/ ReStabilize

ChordSpec == ChordInit /\ [][ChordNext]_vars

----------------------------------------------------------------------------
(* One ChordInferenceEngine used for several invocations of infer_chords, the
   stages of the invocations interleaved: the invocations share self.stats
   and keep their lists in local variables *)

MaxInvocations == 2

\* the local variables after step self.step of infer_chords
InferStep(self) ==
    CASE self.step = 1 ->
           [self EXCEPT !.smoothed_events = smooth_pitch_activity(self.note_events)]
      [] self.step = 2 ->
           [self EXCEPT !.filtered_events = _filter_short_notes(self.smoothed_events)]
      [] self.step = 3 ->
           [self EXCEPT !.key_estimate = estimate_key(self.filtered_events)]
      [] self.step = 4 ->
           [self EXCEPT !.key_filtered_events =
                           _apply_key_filtering(self.filtered_events, self.key_estimate)]
      [] self.step = 5 ->
           [self EXCEPT !.raw_chords =
                           _detect_chords_in_windows(self.key_filtered_events,
                                                     self.key_estimate)]
      [] self.step = 6 ->
           [self EXCEPT !.harmony_filtered_chords =
                           _apply_harmony_filtering(self.raw_chords, self.key_estimate)]
      [] self.step = 7 ->
           [self EXCEPT !.smoothed_chords =
                           smooth_chord_progression(self.harmony_filtered_chords)]
      [] self.step = 8 ->
           [self EXCEPT !.merged_chords = _merge_similar_chords(self.smoothed_chords)]
      [] self.step = 9 ->
           [self EXCEPT !.stable_chords = _ensure_stability(self.merged_chords)]

\* the assignment to self.stats of step k, from the local variables after the
\* step: <<name, value>>, and <<>> for step 3, which makes none
StepCounter(self, k) ==
    CASE k = 1 -> << "smoothed_notes", Len(self.smoothed_events) >>
      [] k = 2 -> << "duration_filtered", Len(self.note_events) - Len(self.filtered_events) >>
      [] k = 3 -> << >>
      [] k = 4 -> << "key_filtered",
                     Len(self.filtered_events) - Len(self.key_filtered_events) >>
      [] k = 5 -> << "raw_chords", Len(self.raw_chords) >>
      [] k = 6 -> << "harmony_filtered",
                     Len(self.raw_chords) - Len(self.harmony_filtered_chords) >>
      [] k = 7 -> << "smoothed_chords",
                     Len(self.harmony_filtered_chords) - Len(self.smoothed_chords) >>
      [] k = 8 -> << "merged_chords", Len(self.smoothed_chords) - Len(self.merged_chords) >>
      [] k = 9 -> << "final_chords", Len(self.stable_chords) >>

\* a fresh engine, and for each invocation the local variables of
\* infer_chords at its entry; the note lists are those of the edge cases
ReuseInit ==
    /\ entry = "reuse"
    /\ pc = "reuse"
    /\ raw_notes = <<>>
    /\ note_events = <<>>
    /\ smoothed_events = <<>>
    /\ filtered_events = <<>>
    /\ key_estimate = NoKeyEstimate
    /\ key_filtered_events = <<>>
    /\ raw_chords = <<>>
    /\ harmony_filtered_chords = <<>>
    /\ smoothed_chords = <<>>
    /\ merged_chords = <<>>
    /\ stable_chords = <<>>
    /\ remerged_chords = <<>>
    /\ restable_chords = <<>>
    /\ stats = <<>>
    /\ result = <<>>
    /\ exception = ""
    /\ invocations \in
          [1..MaxInvocations ->
              {[note_events |-> ConvertLoop(raw).notes, step |-> 0,
                smoothed_events |-> <<>>, filtered_events |-> <<>>,
                key_estimate |-> NoKeyEstimate, key_filtered_events |-> <<>>,
                raw_chords |-> <<>>, harmony_filtered_chords |-> <<>>,
                smoothed_chords |-> <<>>, merged_chords |-> <<>>,
                stable_chords |-> <<>>, logged |-> <<>>] : raw \in EdgeCases}]

\* the entry of infer_chords: self.stats.clear()
Invoke(i) ==
    /\ invocations[i].step = 0
    /\ stats' = <<>>
    /\ invocations' = [invocations EXCEPT ![i].step = 1]
    /\ UNCHANGED << entry, pc, raw_notes, notes_vars, key_estimate, chords_vars, again_vars,
                    result, exception >>

\* one of the nine steps with its assignment to self.stats
RunStage(i) ==
    /\ invocations[i].step \in 1..9
    /\ \E after \in {InferStep(invocations[i])} :
          \E counter \in {StepCounter(after, invocations[i].step)} :
             /\ stats' = IF counter = <<>> THEN stats ELSE SetStat(counter[1], counter[2])
             /\ invocations' = [invocations EXCEPT ![i] = [after EXCEPT !.step = @ + 1]]
    /\ UNCHANGED << entry, pc, raw_notes, notes_vars, key_estimate, chords_vars, again_vars,
                    result, exception >>

\* _log_stats: self.stats.get(name, 0) for each counter, then the return
LogStats(i) ==
    /\ invocations[i].step = 10
    /\ invocations' = [invocations EXCEPT
                          ![i].logged =
                              [name \in {"smoothed_notes", "duration_filtered",
                                         "key_filtered", "raw_chords", "harmony_filtered",
                                         "smoothed_chords", "merged_chords", "final_chords"}
                                  |-> IF name \in DOMAIN stats THEN stats[name] ELSE 0],
                          ![i].step = 11]
    /\ UNCHANGED << entry, pc, raw_notes, notes_vars, key_estimate, chords_vars, again_vars,
                    result, exception, stats >>

ReuseNext ==
    \/ \E i \in 1..MaxInvocations : Invoke(i)
    \/ \E i \in 1..MaxInvocations : RunStage(i)
    \/ \E i \in 1..MaxInvocations : LogStats(i)

ReuseSpec == ReuseInit /\ [][ReuseNext]_vars

----------------------------------------------------------------------------
(* Properties *)

WellFormed(note_dict) ==
    /\ note_dict.isdict
    /\ \A field \in {note_dict.onset, note_dict.offset, note_dict.pitch,
                     note_dict.confidence} : field.k = "num"

\* a valid note: onset < offset, pitch 0..127, confidence in [0, 1]
ValidNote(note) ==
    /\ note.onset < note.offset
    /\ note.pitch \in 0..127
    /\ note.confidence \in 0..100

ValidInput ==
    \A i \in 1..Len(raw_notes) :
        /\ WellFormed(raw_notes[i])
        /\ ValidNote(ConvertRecord(raw_notes[i]).note)

\* a field that is absent or that no conversion turns into a number of the
\* declared type: None, a text that is no number, an infinite pitch
MalformedKinds == {"missing", "none", "str", "inf"}

Malformed(note_dict) ==
    \/ ~ note_dict.isdict
    \/ \E field \in {note_dict.onset, note_dict.offset, note_dict.pitch,
                     note_dict.confidence} : field.k \in MalformedKinds

Returned == pc = "returned" /\ result # <<>>

FracInUnit(f) == f.n >= 0 /\ f.n <= f.d

CorrInUnit(c) ==
    /\ c.num >= 0
    /\ ~ BigGreater(BigSq(c.num), BigMul(BigOfNat(c.vx), BigOfNat(c.vy)))

\* c > p/q for a key confidence c >= 0
CorrAbove(c, p, q) ==
    /\ c.num > 0
    /\ BigGreater(BigMul(BigSq(q), BigSq(c.num)),
                  BigMul(BigSq(p), BigMul(BigOfNat(c.vx), BigOfNat(c.vy))))

\* the chord lists of all stages
StageChords ==
    << raw_chords, harmony_filtered_chords, smoothed_chords, merged_chords, stable_chords >>

AllStageChords == SeqToSet(Concat(StageChords))

\* C1: for a list of valid notes, the chords returned by process_note_events
\* are sorted by onset and consecutive chords do not overlap
C1_SortedNonOverlapping ==
    (Returned /\ ValidInput) =>
        LET chords == result[1].chords
        IN \A i \in 1..(Len(chords) - 1) :
              /\ chords[i].onset <= chords[i + 1].onset
              /\ chords[i].offset <= chords[i + 1].onset

C3_ConfidenceInUnit ==
    (\A i \in 1..Len(note_events) : ValidNote(note_events[i])) =>
        /\ \A chord \in AllStageChords : FracInUnit(chord.confidence)
        /\ CorrInUnit(key_estimate.confidence)
        /\ Returned =>
              /\ \A i \in 1..Len(result[1].chords) :
                    FracInUnit(result[1].chords[i].confidence)
              /\ CorrInUnit(result[1].key.confidence)

\* a window confidence was clamped to 1, a merge averaged two different
\* confidences, and the key correlation is strictly between 0 and 1
C3_Witness ==
    /\ Returned
    /\ \E i \in 1..Len(raw_chords) :
          /\ raw_chords[i].confidence = FracOne
          /\ \E j \in 1..Len(raw_chords) : raw_chords[j].confidence # FracOne
    /\ Len(merged_chords) < Len(smoothed_chords)
    /\ \E i \in 1..Len(merged_chords) :
          \A j \in 1..Len(smoothed_chords) :
              merged_chords[i].confidence # smoothed_chords[j].confidence
    /\ CorrAbove(key_estimate.confidence, 1, 2)
    /\ key_estimate.confidence # CorrOne

\* C4: every chord of every stage and of the output has a non-empty set of
\* pitch classes within 0..11 that contains its root_pc
C4_RootInPitchClasses ==
    /\ \A chord \in AllStageChords :
          /\ chord.pitch_classes # {}
          /\ chord.pitch_classes \subseteq 0..11
          /\ chord.root_pc \in chord.pitch_classes
    /\ Returned =>
          \A i \in 1..Len(result[1].chords) :
              /\ result[1].chords[i].pitch_classes # {}
              /\ result[1].chords[i].pitch_classes \subseteq 0..11

\* a merge has joined two window chords with different sets of pitch classes,
\* and the merged chord is in the output
C4_Witness ==
    /\ Returned
    /\ Len(merged_chords) < Len(smoothed_chords)
    /\ \E i \in 1..Len(stable_chords) :
          \A j \in 1..Len(smoothed_chords) :
              stable_chords[i].pitch_classes # smoothed_chords[j].pitch_classes

\* C5: a call with an empty list, or with a list of malformed records only,
\* returns the empty chord list and the default key without running the engine
C5_DefaultOnInvalidInput ==
    (pc # "convert" /\ \A i \in 1..Len(raw_notes) : Malformed(raw_notes[i])) =>
        /\ pc = "returned"
        /\ result = << [chords |-> <<>>, key |-> DefaultKeyInfo] >>
        /\ stats = <<>>

\* the records of raw that are not malformed, in order
WithoutMalformed(raw) == LET Kept(note_dict) == ~ Malformed(note_dict) IN SelectSeq(raw, Kept)

\* C6: a malformed record never makes the call raise, and the notes the engine
\* works on are those of the list without its malformed records, in order
C6_MalformedSkipped ==
    (pc # "convert") =>
        /\ pc # "raised"
        /\ exception = ""
        /\ note_events = ConvertLoop(WithoutMalformed(raw_notes)).notes

\* C7: when all notes of the input have one pitch class, no window yields a
\* chord and the returned chord list is empty
C7_OnePitchClassNoChord ==
    (/\ note_events # <<>>
     /\ \A i \in 1..Len(note_events) :
           /\ ValidNote(note_events[i])
           /\ pitch_class(note_events[i]) = pitch_class(note_events[1])) =>
        /\ AllStageChords = {}
        /\ Returned => result[1].chords = <<>>

\* two notes of one pitch class sound together in a window, so that the
\* window has the notes it needs and is analysed, and the call has returned
C7_Witness ==
    /\ Returned
    /\ Len(key_filtered_events) >= MIN_NOTES_PER_CHORD
    /\ \A i \in 1..Len(note_events) :
          pitch_class(note_events[i]) = pitch_class(note_events[1])
    /\ \E i, j \in 1..Len(key_filtered_events) :
          /\ i < j
          /\ key_filtered_events[i].onset < key_filtered_events[j].offset
          /\ key_filtered_events[j].onset < key_filtered_events[i].offset
    /\ result[1].chords = <<>>

\* C8: the merge and the stability filter applied to their own output return
\* that output
C8_MergeStabilityIdempotent ==
    (pc = "done") => restable_chords = stable_chords

SymbolsOf(chords) == [i \in 1..Len(chords) |-> chords[i].chord]

\* C9: the scenario of the test returns four chords, C, Am or A, F and G, each
\* lasting two seconds give or take 0.4 s
C9_ScenarioChords ==
    (Returned /\ raw_notes = TestScenario) =>
        LET chords == result[1].chords
        IN /\ Len(chords) = 4
           /\ SymbolsOf(chords) \in {<<"C", "Am", "F", "G">>, <<"C", "A", "F", "G">>}
           /\ \A i \in 1..Len(chords) :
                 /\ duration(chords[i]) >= WINDOW_SIZE - MERGE_THRESHOLD
                 /\ duration(chords[i]) <= WINDOW_SIZE + MERGE_THRESHOLD

\* C10: the scenario of the test is estimated as C major with a confidence
\* above 0.5, and the key filter drops its out-of-key D# note and nothing else
C10_ScenarioKey ==
    (raw_notes = TestScenario) =>
        /\ (pc \notin {"convert", "smooth", "filter", "key"}) =>
              /\ key_estimate.key_pc = 0
              /\ key_estimate.mode = "major"
              /\ CorrAbove(key_estimate.confidence, 1, 2)
        /\ (pc \notin {"convert", "smooth", "filter", "key", "keyfilter"}) =>
              /\ \A i \in 1..Len(key_filtered_events) : key_filtered_events[i].pitch # 63
              /\ Len(key_filtered_events) = Len(filtered_events) - 1
        /\ Returned =>
              /\ result[1].key.key = "C"
              /\ result[1].key.mode = "major"
              /\ CorrAbove(result[1].key.confidence, 1, 2)

\* the scenario has been through the key filter, which found the D# note
\* among the notes the duration filter kept and removed it, and has returned
C10_Witness ==
    /\ Returned
    /\ raw_notes = TestScenario
    /\ \E i \in 1..Len(filtered_events) : filtered_events[i].pitch = 63
    /\ stats["key_filtered"] = 1

\* the histogram has one and the same positive weight in all 12 pitch classes
UniformHistogram(pc_weights) ==
    /\ pc_weights[1] > 0
    /\ \A i \in 1..12 : pc_weights[i] = pc_weights[1]

C12_PipelineTotal ==
    ValidInput =>
        /\ pc # "raised"
        /\ exception = ""
        /\ pc \in {"convert", "smooth", "filter", "key", "keyfilter", "detect", "harmony",
                   "chordsmooth", "merge", "stability", "output", "returned"}
        /\ pc = "returned" => result # <<>>

\* a window whose weights are all zero was analysed and the call returned,
\* and so did a call whose notes were all too short
C12_Witness ==
    /\ Returned
    /\ ValidInput
    /\ \/ /\ raw_chords # <<>>
          /\ \A i \in 1..Len(note_events) : note_events[i].confidence = 0
       \/ note_events # <<>> /\ filtered_events = <<>>

\* the invocation has logged its counters and returned
Finished(i) == invocations[i].step = 11

\* C13: on an engine used for several invocations, one after the other or
\* with their stages interleaved, the counters an invocation reads at its end
\* are those it writes when it runs alone on a fresh engine
C13_NoDiagnosticsLeak ==
    \A i \in DOMAIN invocations :
        Finished(i) =>
            \A k \in 1..9 :
                LET counter == StepCounter(invocations[i], k)
                IN counter # <<>> => invocations[i].logged[counter[1]] = counter[2]

\* the labels of the smoother's timeline for chord_events after its filter
SmoothedTimeline(chord_events) ==
    LET start_time == SetMin({chord_events[i].onset : i \in 1..Len(chord_events)})
        end_time == SetMax({chord_events[i].offset : i \in 1..Len(chord_events)})
        timeline_points == TimelinePoints(start_time, end_time)
    IN SmoothSymbols([k \in 1..Len(timeline_points) |->
                         ActiveSymbol(chord_events, timeline_points[k])])

\* C14: "N" labels points of the smoother's timeline only: no chord that the
\* smoother, the merge or the stability filter emits, and no chord of the
\* returned list, has the chord symbol "N"
C14_NoChordLabelNotEmitted ==
    /\ \A chords \in {smoothed_chords, merged_chords, stable_chords, remerged_chords,
                      restable_chords} :
          \A i \in 1..Len(chords) : chords[i].chord_symbol # NoChordLabel
    /\ Returned => \A i \in 1..Len(result[1].chords) : result[1].chords[i].chord # "N"

\* the smoother has filtered a list of more than 2 chords whose timeline
\* keeps a run labelled "N" after the filter, and has emitted chords
C14_Witness ==
    /\ pc \in {"merge", "stability", "remerge", "restability", "done"}
    /\ Len(harmony_filtered_chords) > 2
    /\ \E k \in 1..Len(SmoothedTimeline(harmony_filtered_chords)) :
          SmoothedTimeline(harmony_filtered_chords)[k] = NoChordLabel
    /\ smoothed_chords # <<>>

\* C15: no stage changes a value an earlier stage produced: the caller's
\* list and the list of each stage are changed by no step but the one that
\* produces them
C15_StagesDoNotMutate ==
    [][/\ raw_notes' = raw_notes
       /\ pc # "convert" => note_events' = note_events
       /\ pc # "smooth" => smoothed_events' = smoothed_events
       /\ pc # "filter" => filtered_events' = filtered_events
       /\ pc # "key" => key_estimate' = key_estimate
       /\ pc # "keyfilter" => key_filtered_events' = key_filtered_events
       /\ pc # "detect" => raw_chords' = raw_chords
       /\ pc # "harmony" => harmony_filtered_chords' = harmony_filtered_chords
       /\ pc # "chordsmooth" => smoothed_chords' = smoothed_chords
       /\ pc # "merge" => merged_chords' = merged_chords
       /\ pc # "stability" => stable_chords' = stable_chords]_vars

\* the call has returned for a list in which two notes of one pitch class are
\* out of onset order, so that the smoother sorted their group, and every
\* stage has consumed the list of the one before
C15_Witness ==
    /\ Returned
    /\ \E i, j \in 1..Len(note_events) :
          /\ i < j
          /\ pitch_class(note_events[i]) = pitch_class(note_events[j])
          /\ note_events[i].onset > note_events[j].onset
    /\ smoothed_events # note_events
    /\ Len(smoothed_events) = Len(note_events)

\* C16: the stages run in one fixed order; the key is estimated once, from
\* the duration-filtered notes, and that estimate is the one the key filter,
\* the chord detection and the harmony filter use and the one returned
C16_FixedOrderOneKeyEstimate ==
    [][/\ pc = "smooth" => pc' = "filter"
       /\ pc = "filter" => pc' = "key"
       /\ pc = "key" => pc' = "keyfilter" /\ key_estimate' = estimate_key(filtered_events)
       /\ pc # "key" => key_estimate' = key_estimate
       /\ pc = "keyfilter" =>
             /\ pc' = "detect"
             /\ key_filtered_events' = _apply_key_filtering(filtered_events, key_estimate)
       /\ pc = "detect" =>
             /\ pc' = "harmony"
             /\ raw_chords' = _detect_chords_in_windows(key_filtered_events, key_estimate)
       /\ pc = "harmony" =>
             /\ pc' = "chordsmooth"
             /\ harmony_filtered_chords' = _apply_harmony_filtering(raw_chords, key_estimate)
       /\ pc = "chordsmooth" => pc' = "merge"
       /\ pc = "merge" => pc' = "stability"
       /\ pc = "stability" => pc' = "output"
       /\ pc = "output" => pc' = "returned" /\ result'[1].key = KeyInfo(key_estimate)]_vars

\* the call has returned a confident key after the duration filter and the
\* key filter each dropped notes and the windows gave chords
C16_Witness ==
    /\ Returned
    /\ CorrAbove(key_estimate.confidence, 1, 2)
    /\ result[1].key = KeyInfo(key_estimate)
    /\ Len(filtered_events) < Len(smoothed_events)
    /\ Len(key_filtered_events) < Len(filtered_events)
    /\ raw_chords # <<>>

\* the median of three values
Median3(a, b, c) == a + b + c - Max(a, Max(b, c)) - Min(a, Min(b, c))

\* the notes of pitch class p, in the order of the list
PitchClassGroup(events, p) == LET InGroup(n) == pitch_class(n) = p IN SelectSeq(events, InGroup)

\* the notes of pitch class p of the input, ordered by onset
SortedGroup(p) ==
    LET group == PitchClassGroup(note_events, p)
    IN StableSort(group, [i \in 1..Len(group) |-> group[i].onset])

\* C17: in a pitch-class group of at least 3 notes, ordered by onset, the
\* smoothed confidence of a note is the median of its confidence and those of
\* its two neighbours, the first and the last note standing in for the
\* neighbour they lack (no zero is padded in)
C17_EdgeReplicatedMedian ==
    (pc \notin {"convert", "smooth", "raised"} /\ note_events # <<>>) =>
        \A p \in 0..11 :
            LET group == SortedGroup(p)
                n == Len(group)
                smoothed == PitchClassGroup(smoothed_events, p)
            IN n >= MEDIAN_FILTER_SIZE =>
                  /\ Len(smoothed) = n
                  /\ \A i \in 1..n :
                        smoothed[i].confidence =
                            Median3(group[Max(i - 1, 1)].confidence, group[i].confidence,
                                    group[Min(i + 1, n)].confidence)

\* the number of notes of the list with the onset, offset and pitch of note
Occurrences(events, note) ==
    Cardinality({i \in 1..Len(events) :
                    /\ events[i].onset = note.onset
                    /\ events[i].offset = note.offset
                    /\ events[i].pitch = note.pitch})

\* C18: the smoother's output has as many notes as its input and the same
\* (onset, offset, pitch) triples, each as often; a pitch-class group of fewer
\* notes than the filter size comes out with the confidences it had
C18_SmootherChangesConfidenceOnly ==
    (pc \notin {"convert", "smooth", "raised"} /\ note_events # <<>>) =>
        /\ Len(smoothed_events) = Len(note_events)
        /\ \A i \in 1..Len(note_events) :
              Occurrences(smoothed_events, note_events[i])
                  = Occurrences(note_events, note_events[i])
        /\ \A p \in 0..11 :
              Len(SortedGroup(p)) < MEDIAN_FILTER_SIZE =>
                  PitchClassGroup(smoothed_events, p) = SortedGroup(p)

\* the smoother has changed a confidence in a group of 3 or more notes and
\* has passed on a group of 2 notes
C18_Witness ==
    /\ pc \notin {"convert", "smooth", "raised"}
    /\ \E p \in 0..11 :
          /\ Len(SortedGroup(p)) >= MEDIAN_FILTER_SIZE
          /\ PitchClassGroup(smoothed_events, p) # SortedGroup(p)
    /\ \E p \in 0..11 : Len(SortedGroup(p)) = 2

\* C19: the duration filter returns the notes of its input that last 0.06 s
\* or more, in the order of the input and as they were; of the short_notes of
\* the edge-case test the 10 ms note is dropped and the two 100 ms notes stay
C19_DurationFilter ==
    (pc \notin {"convert", "smooth", "filter", "raised"} /\ note_events # <<>>) =>
        /\ LET Long(n) == n.offset - n.onset >= 6
           IN filtered_events = SelectSeq(smoothed_events, Long)
        /\ note_events = << NoteEvent(0, 1, 60, 80), NoteEvent(10, 20, 64, 80),
                            NoteEvent(30, 40, 67, 80) >>
              => filtered_events = << NoteEvent(10, 20, 64, 80), NoteEvent(30, 40, 67, 80) >>

\* the call on the short_notes of the edge-case test has returned
C19_Witness ==
    /\ Returned
    /\ Len(note_events) = 3
    /\ duration(note_events[1]) = 1
    /\ Len(filtered_events) = 2
    /\ \A i \in 1..2 : duration(filtered_events[i]) = 10
    /\ stats["duration_filtered"] = 1

\* the pitch class is a degree of the major scale, or of the natural minor
\* scale, on key_pc
Diatonic(p, key_pc, mode) ==
    (p - key_pc) % 12 \in (IF mode = "major" THEN {0, 2, 4, 5, 7, 9, 11}
                                             ELSE {0, 2, 3, 5, 7, 8, 10})

\* C20: with a key confidence below 0.5 the key filter returns its input;
\* otherwise it returns, in the order of the input, the notes that are
\* diatonic to the key or have a confidence of 0.15 or more
C20_KeyFilter ==
    (pc \notin {"convert", "smooth", "filter", "key", "keyfilter", "raised"}
     /\ note_events # <<>>) =>
        IF CorrGeq(key_estimate.confidence, 1, 2)
        THEN LET Kept(n) == \/ Diatonic(n.pitch % 12, key_estimate.key_pc, key_estimate.mode)
                            \/ n.confidence >= 15
             IN key_filtered_events = SelectSeq(filtered_events, Kept)
        ELSE key_filtered_events = filtered_events

\* with a confident key, the filter has dropped a note outside the scale and
\* kept the others
C20_Witness ==
    /\ Returned
    /\ CorrGeq(key_estimate.confidence, 1, 2)
    /\ Len(key_filtered_events) < Len(filtered_events)
    /\ \E i \in 1..Len(filtered_events) :
          /\ ~ Diatonic(filtered_events[i].pitch % 12, key_estimate.key_pc, key_estimate.mode)
          /\ filtered_events[i].confidence < 15
    /\ key_filtered_events # <<>>

----------------------------------------------------------------------------
(* Selection among the 24 keys *)

\* the list estimate_key builds its histogram from
KeyEvents ==
    IF _filter_short_notes(filtered_events) = <<>> THEN filtered_events
    ELSE _filter_short_notes(filtered_events)

\* the correlation of a histogram with the profile of one key
KeyCorrelation(pc_weights, root_pc, mode) ==
    _correlate_with_profile(pc_weights, root_pc,
                            IF mode = "major" THEN MAJOR_PROFILE ELSE MINOR_PROFILE)

KeyModes == {"major", "minor"}

\* a key with a lower root, or major against minor at the same root
KeyBefore(r1, m1, r2, m2) == r1 < r2 \/ (r1 = r2 /\ m1 = "major" /\ m2 = "minor")

\* C21: among the 24 keys the detector returns one of maximal correlation,
\* and of the keys that share the maximal correlation the one with the
\* lowest root, major rather than minor at that root: no key correlates
\* more than the returned one, and the returned one correlates strictly more
\* than every key of a lower root and than the major key of its own root
C21_KeyTiesLowestRootMajor ==
    (pc = "keyfilter" /\ SumSeq(Histogram(KeyEvents)) # 0) =>
        \E w \in {Normalize(Histogram(KeyEvents))} :
            \E best \in {KeyCorrelation(w, key_estimate.key_pc, key_estimate.mode)} :
                \A r \in 0..11 : \A m \in KeyModes :
                    \E c \in {KeyCorrelation(w, r, m)} :
                        /\ ~ CorrGreater(c, best)
                        /\ KeyBefore(r, m, key_estimate.key_pc, key_estimate.mode)
                              => CorrGreater(best, c)

\* a key was estimated for which a key of a higher root correlates exactly
\* as much as the returned one, both more than 0 (the tritone pair: the
\* roots r and r + 6)
C21_Witness ==
    /\ pc = "keyfilter"
    /\ SumSeq(Histogram(KeyEvents)) # 0
    /\ \E w \in {Normalize(Histogram(KeyEvents))} :
          \E best \in {KeyCorrelation(w, key_estimate.key_pc, key_estimate.mode)} :
              /\ best.num > 0
              /\ \E r \in 0..11 : \E m \in KeyModes :
                    /\ r > key_estimate.key_pc
                    /\ ~ CorrGreater(best, KeyCorrelation(w, r, m))

----------------------------------------------------------------------------
(* The windows of the detector *)

\* the notes of the detector's input that belong to the window [t0, t1)
WindowNoteIndices(t0, t1) ==
    {k \in 1..Len(key_filtered_events) :
        key_filtered_events[k].onset < t1 /\ key_filtered_events[k].offset > t0}

WindowPcs(t0, t1) == {pitch_class(key_filtered_events[k]) : k \in WindowNoteIndices(t0, t1)}

\* the sum of confidence x overlap over the window's notes of one pitch class
WeightInWindow(p, t0, t1) ==
    SumSeq([k \in 1..Len(key_filtered_events) |->
              IF k \in WindowNoteIndices(t0, t1) /\ pitch_class(key_filtered_events[k]) = p
              THEN key_filtered_events[k].confidence
                   * Max(0, Min(key_filtered_events[k].offset, t1)
                            - Max(key_filtered_events[k].onset, t0))
              ELSE 0])

\* the pitch classes of at least 20% of the window's maximum weight
Significant(t0, t1) ==
    {p \in WindowPcs(t0, t1) :
        \A q \in WindowPcs(t0, t1) : 5 * WeightInWindow(p, t0, t1) >= WeightInWindow(q, t0, t1)}

\* C22: every raw chord comes from a window with at least 2 notes
\* (onset < window end and offset > window start) and at least 2 significant
\* pitch classes; its pitch_classes are significant ones (weight >= 20% of the
\* window's maximum), all of them when there are at most 6 and otherwise 6
\* of them none lighter than a significant one left out; so it has between 2
\* and 6 pitch classes
C22_WindowChordPitchClasses ==
    pc = "harmony" =>
        \A i \in 1..Len(raw_chords) :
            \E c \in {raw_chords[i]} : \E S \in {Significant(c.onset, c.offset)} :
                /\ Cardinality(WindowNoteIndices(c.onset, c.offset)) >= 2
                /\ Cardinality(S) >= 2
                /\ c.pitch_classes \subseteq S
                /\ Cardinality(c.pitch_classes) = Min(6, Cardinality(S))
                /\ \A p \in c.pitch_classes : \A q \in S \ c.pitch_classes :
                      WeightInWindow(p, c.onset, c.offset) >= WeightInWindow(q, c.onset, c.offset)
                /\ Cardinality(c.pitch_classes) \in 2..6

\* a raw chord of a window with more than 6 significant pitch classes, one
\* of those left out strictly lighter than each one kept, and with a pitch
\* class below the threshold
C22_Witness ==
    /\ pc = "harmony"
    /\ \E i \in 1..Len(raw_chords) :
          \E c \in {raw_chords[i]} : \E S \in {Significant(c.onset, c.offset)} :
              /\ Cardinality(S) > 6
              /\ \E q \in S \ c.pitch_classes : \A p \in c.pitch_classes :
                    WeightInWindow(p, c.onset, c.offset) > WeightInWindow(q, c.onset, c.offset)
              /\ WindowPcs(c.onset, c.offset) # S

----------------------------------------------------------------------------
(* Ties between the roots of the chord identifier *)

\* the notes of the detector's input in the window [t0, t1), in input order
WindowNotes(t0, t1) ==
    LET Active(event) == event.onset < t1 /\ event.offset > t0
    IN SelectSeq(key_filtered_events, Active)

\* a set of pitch classes as an ascending list
Ascending(pcs) ==
    LET In(p) == p \in pcs
    IN SelectSeq([i \in 1..12 |-> i - 1], In)

\* the (root, shape) pairs of a chord's pitch classes whose required intervals
\* are all present
ChordCandidates(pcs) ==
    {rt \in pcs \X (1..Len(chord_tests)) :
        chord_tests[rt[2]].req \subseteq {(p - rt[1]) % 12 : p \in pcs}}

\* the roots of the candidates that no candidate outscores
BestRoots(c) ==
    LET pcs == c.pitch_classes
        w == WindowWeights(WindowNotes(c.onset, c.offset), c.onset, c.offset)
        Score(rt) == ChordScore(rt[1], chord_tests[rt[2]], Ascending(pcs), key_estimate, w)
    IN {rt[1] : rt \in {x \in ChordCandidates(pcs) :
                           \A y \in ChordCandidates(pcs) : ~ ScoreGreater(Score(y), Score(x))}}

\* C23: when several roots reach the best score of a window, the symbol of
\* the window's chord is that of the numerically lowest of them, whatever
\* the order in which the significant pitch classes reach the identifier
C23_TieLowestRoot ==
    pc = "harmony" =>
        \A i \in 1..Len(raw_chords) :
            \E roots \in {BestRoots(raw_chords[i])} :
                roots # {} => raw_chords[i].chord_symbol[1] = NoteName(SetMin(roots))

----------------------------------------------------------------------------
(* The fallback of the chord identifier *)

\* C24: a raw chord none of whose pitch classes is the root of a shape of the
\* table (no required interval set is contained in the intervals from any of
\* them) has the name of its lowest pitch class followed by "?" as symbol and
\* the type unknown; every other raw chord has a symbol made of the name of
\* one of its pitch classes and the suffix of a shape, and that shape's type
C24_UnknownFallback ==
    pc = "harmony" =>
        \A i \in 1..Len(raw_chords) :
            \E c \in {raw_chords[i]} :
                IF ChordCandidates(c.pitch_classes) = {}
                THEN /\ c.chord_symbol = <<NoteName(SetMin(c.pitch_classes)), "?">>
                     /\ c.chord_type = "unknown"
                ELSE /\ \E r \in c.pitch_classes : c.chord_symbol[1] = NoteName(r)
                     /\ \E t \in 1..Len(chord_tests) :
                           /\ c.chord_symbol[2] = chord_tests[t].suffix
                           /\ c.chord_type = chord_tests[t].type

\* the detector returned a chord of two pitch classes a tritone apart, which
\* no shape matches from either root, the higher one heard first
C24_Witness ==
    /\ pc = "harmony"
    /\ \E i \in 1..Len(raw_chords) :
          /\ raw_chords[i].pitch_classes = {0, 6}
          /\ ChordCandidates(raw_chords[i].pitch_classes) = {}
          /\ pitch_class(key_filtered_events[1]) = 6

----------------------------------------------------------------------------
(* The harmony filter *)

\* the decision of the filter for one chord of the list it is given
C25_Keep(chord) ==
    LET weird == chord.chord_symbol[2] = "?"
        listed == chord.chord_type \in FUNCTIONAL_CHORDS
        root_in_key == \/ CorrLt(key_estimate.confidence, 3, 5)
                       \/ Diatonic(chord.root_pc, key_estimate.key_pc, key_estimate.mode)
        repeats == Cardinality({j \in 1..Len(raw_chords) :
                                   raw_chords[j].chord_symbol = chord.chord_symbol}) >= 2
    IN /\ ~ (weird /\ FracLt(chord.confidence, 3, 5) /\ chord.offset - chord.onset < 100)
       /\ \/ listed /\ root_in_key
          \/ /\ ~ root_in_key
             /\ \/ FracGeq(chord.confidence, 7, 10) /\ chord.offset - chord.onset >= 100
                \/ chord.chord_type = "m11" /\ FracGeq(chord.confidence, 3, 5)
          \/ /\ root_in_key
             /\ ~ listed
             /\ \/ FracGeq(chord.confidence, 3, 10)
                \/ chord.offset - chord.onset >= 60
                \/ repeats

----------------------------------------------------------------------------
(* The label filter of the window smoother *)

\* the labels of the grid points before the filter
TimelineLabels(chord_events) ==
    LET start_time == SetMin({chord_events[i].onset : i \in 1..Len(chord_events)})
        end_time == SetMax({chord_events[i].offset : i \in 1..Len(chord_events)})
        timeline_points == TimelinePoints(start_time, end_time)
    IN [k \in 1..Len(timeline_points) |-> ActiveSymbol(chord_events, timeline_points[k])]

\* the grid indices (from 0) of the window of index i on a grid of n points
LabelWindow(i, n) == {j \in 0..(n - 1) : j >= Max(0, i - 1) /\ j < Min(n, Max(0, i - 1) + 3)}

\* label is the result of the filter for the window W of the labels raw
\* (raw[j + 1] is the label of grid index j)
FilteredLabel(label, raw, W) ==
    LET count(sym) == Cardinality({j \in W : raw[j + 1] = sym})
        first(sym) == SetMin({j \in W : raw[j + 1] = sym})
        others == {raw[j + 1] : j \in W} \ {NoChordLabel}
    IN IF others = {} THEN label = NoChordLabel
       ELSE /\ label \in others
            /\ \A sym \in others :
                  \/ count(label) > count(sym)
                  \/ count(label) = count(sym) /\ first(label) <= first(sym)

\* the smoother was given more than 2 chords and filtered their labels
Filtered ==
    /\ pc = "merge"
    /\ Len(harmony_filtered_chords) > 2
    /\ Len(TimelineLabels(harmony_filtered_chords)) >= filter_window

----------------------------------------------------------------------------
(* The runs of the window smoother *)

\* C27: the smoother emits one chord per maximal run of one label other than
\* "N": no two consecutive chords of its output carry the same symbol with the
\* second starting where the first ends, the run that holds the last grid
\* point included
C27_OneChordPerRun ==
    Filtered =>
        \A k \in 1..(Len(smoothed_chords) - 1) :
            ~ /\ smoothed_chords[k].chord_symbol = smoothed_chords[k + 1].chord_symbol
              /\ smoothed_chords[k + 1].onset = smoothed_chords[k].offset

----------------------------------------------------------------------------
(* The data of the chords the window smoother emits *)

\* the chords of the smoother's input that carry a symbol, by index
WithSymbol(chord_symbol) ==
    {j \in 1..Len(harmony_filtered_chords) :
        harmony_filtered_chords[j].chord_symbol = chord_symbol}

\* C28: every chord the smoother emits has the confidence, pitch_classes,
\* chord_type and root_pc of the first chord of the smoother's input that
\* carries its symbol, also when later chords of that symbol differ from it
C28_DataOfFirstChord ==
    Filtered =>
        \A k \in 1..Len(smoothed_chords) :
            \E c \in {smoothed_chords[k]} :
                /\ WithSymbol(c.chord_symbol) # {}
                /\ \E first \in {harmony_filtered_chords[SetMin(WithSymbol(c.chord_symbol))]} :
                      /\ c.confidence = first.confidence
                      /\ c.pitch_classes = first.pitch_classes
                      /\ c.chord_type = first.chord_type
                      /\ c.root_pc = first.root_pc

\* the smoother emitted a chord whose symbol two chords of its input carry
\* with different confidences
C28_Witness ==
    /\ Filtered
    /\ \E k \in 1..Len(smoothed_chords) :
          \E i, j \in WithSymbol(smoothed_chords[k].chord_symbol) :
              harmony_filtered_chords[i].confidence # harmony_filtered_chords[j].confidence

----------------------------------------------------------------------------
(* The merger *)

\* the condition under which the next chord is merged into the accumulator
Merges(current, next) ==
    \/ /\ current.chord_symbol = next.chord_symbol
       /\ \/ next.onset - current.offset <= 40
          \/ next.onset < current.offset
    \/ /\ current.root_pc = next.root_pc
       /\ current.chord_type = next.chord_type
       /\ next.onset < current.offset

\* merged is the accumulator after the merge of next into current
IsMergeOf(merged, current, next) ==
    /\ merged.onset = current.onset
    /\ merged.chord_symbol = current.chord_symbol
    /\ merged.root_pc = current.root_pc
    /\ merged.chord_type = current.chord_type
    /\ merged.offset >= current.offset
    /\ merged.offset >= next.offset
    /\ merged.offset \in {current.offset, next.offset}
    /\ 2 * merged.confidence.n * current.confidence.d * next.confidence.d
          = merged.confidence.d * (current.confidence.n * next.confidence.d
                                   + next.confidence.n * current.confidence.d)
    /\ merged.pitch_classes = current.pitch_classes \cup next.pitch_classes

RECURSIVE IsMergePass(_, _, _)
\* out is what one left-to-right pass emits from the accumulator current and
\* the remaining chords rest
IsMergePass(out, current, rest) ==
    IF rest = <<>> THEN out = <<current>>
    ELSE IF Merges(current, Head(rest))
    THEN \E merged \in {MergePair(current, Head(rest))} :
            /\ IsMergeOf(merged, current, Head(rest))
            /\ IsMergePass(out, merged, Tail(rest))
    ELSE /\ out # <<>>
         /\ Head(out) = current
         /\ IsMergePass(Tail(out), Head(rest), Tail(rest))

\* C29: the output of the merger is that of one left-to-right pass with an
\* accumulator: the next chord is merged into it if and only if (same symbol
\* and (next.onset - current.offset <= 0.4 or next.onset < current.offset))
\* or (same root_pc and chord_type and next.onset < current.offset); the
\* merge keeps the accumulator's onset, symbol, root_pc and type, takes the
\* larger offset, the mean of the two confidences and the union of the pitch
\* classes; a chord that does not merge is emitted as it is
C29_MergePass ==
    pc = "stability" =>
        IF Len(smoothed_chords) <= 1 THEN merged_chords = smoothed_chords
        ELSE IsMergePass(merged_chords, smoothed_chords[1], Tail(smoothed_chords))

\* two overlapping chords of different symbols and equal root_pc and
\* chord_type were merged into one chord under the symbol of the first
C29_Witness ==
    /\ pc = "stability"
    /\ Len(smoothed_chords) = 2
    /\ smoothed_chords[1].chord_symbol # smoothed_chords[2].chord_symbol
    /\ smoothed_chords[1].root_pc = smoothed_chords[2].root_pc
    /\ smoothed_chords[1].chord_type = smoothed_chords[2].chord_type
    /\ smoothed_chords[2].onset < smoothed_chords[1].offset
    /\ Len(merged_chords) = 1
    /\ merged_chords[1].chord_symbol = smoothed_chords[1].chord_symbol
    /\ merged_chords[1].pitch_classes # smoothed_chords[1].pitch_classes

----------------------------------------------------------------------------
(* The output of the window smoother *)

\* C30: when the smoother rebuilds the progression, its output is sorted by
\* onset and free of overlaps (every chord starts at or after the offset of
\* the one before), every chord of it lies between the least onset and the
\* greatest offset of the input, and every symbol of it is the symbol of a
\* chord of the input
C30_RebuiltProgression ==
    Filtered =>
        /\ \A k \in 1..(Len(smoothed_chords) - 1) :
              /\ smoothed_chords[k].onset <= smoothed_chords[k + 1].onset
              /\ smoothed_chords[k].offset <= smoothed_chords[k + 1].onset
        /\ \A k \in 1..Len(smoothed_chords) :
              /\ \E j \in 1..Len(harmony_filtered_chords) :
                    harmony_filtered_chords[j].onset <= smoothed_chords[k].onset
              /\ smoothed_chords[k].onset <= smoothed_chords[k].offset
              /\ \E j \in 1..Len(harmony_filtered_chords) :
                    smoothed_chords[k].offset <= harmony_filtered_chords[j].offset
              /\ \E j \in 1..Len(harmony_filtered_chords) :
                    smoothed_chords[k].chord_symbol = harmony_filtered_chords[j].chord_symbol

\* the smoother rebuilt a progression whose chords overlap into chords of
\* several symbols
C30_Witness ==
    /\ Filtered
    /\ \E j \in 1..(Len(harmony_filtered_chords) - 1) :
          harmony_filtered_chords[j + 1].onset < harmony_filtered_chords[j].offset
    /\ \E k \in 1..(Len(smoothed_chords) - 1) :
          smoothed_chords[k].chord_symbol # smoothed_chords[k + 1].chord_symbol

====
